---- MODULE Spec2Model ----
(***************************************************************************)
(* Structured-output extraction of package-intelligence: parseText,       *)
(* parseObject, generateStructured and the result model.                  *)
(*                                                                         *)
(* A text is a sequence of characters; a character is a one-character     *)
(* string, except for the characters that have no TLA+ string literal,    *)
(* which are named tokens (BT for the backtick).  Indices are 1-based,    *)
(* and 0 stands for the -1 ("not found") of indexOf / lastIndexOf.        *)
(***************************************************************************)
EXTENDS Integers, Sequences, FiniteSets, TLC

VARIABLES
    inText,      \* parseObject: the text argument
    inSchema,    \* parseObject / generateStructured: the schema argument
    pc,          \* parseObject: the statement the call has reached
    located,     \* parseObject: jsonString, the located candidate
    extractedV,  \* parseObject: extracted, what extractBySchemaType returned
    unescapedV,  \* parseObject: unescaped, what unescapeJsonValues returned
    outcome,     \* parseObject: what the call returned or threw
    gpc,         \* generateStructured: the statement the call has reached
    response,    \* generateStructured: what await generateText(...) gave
    result,      \* generateStructured: the GenerationResult it resolved with
    modelCalls,  \* generateStructured: how many times generateText was called
    extractions, \* generateStructured: how many times parseObject was called
    textIn,      \* parseText: the text argument of the first call
    textOpts,    \* parseText: the options argument
    textOut,     \* parseText: what the successive calls returned
    lastIndex,   \* parse-text.ts: lastIndex of each module-level global regex
    calls,       \* parse-text.ts: the calls completed since the module loaded
    retries,     \* ResilientAgent: the retries option
    attempt,     \* ResilientAgent.run: the loop counter
    rpc,         \* ResilientAgent.run: the statement the call has reached
    agentRuns,   \* ResilientAgent.run: how each call of the wrapped agent ended
    runResult    \* ResilientAgent.run: what the call resolved with

parseVars == <<inText, inSchema, pc, located, extractedV, unescapedV, outcome>>
genVars == <<gpc, response, result, modelCalls, extractions>>
textVars == <<textIn, textOpts, textOut>>
moduleVars == <<lastIndex, calls>>
retryVars == <<retries, attempt, rpc, agentRuns, runResult>>
vars == <<parseVars, genVars, textVars, moduleVars, retryVars>>

\* ------------------------------------------------------------------------
\* Characters and texts
\* ------------------------------------------------------------------------
Chars(str) == [i \in 1..Len(str) |-> SubSeq(str, i, i)]

BT == "BT"
BS == "\\"
DQ == "\""
NL == "\n"
CR == "\r"
TAB == "\t"

Digits == {"0", "1", "2", "3", "4", "5", "6", "7", "8", "9"}

DigitVal(c) ==
    CASE c = "0" -> 0 [] c = "1" -> 1 [] c = "2" -> 2 [] c = "3" -> 3
      [] c = "4" -> 4 [] c = "5" -> 5 [] c = "6" -> 6 [] c = "7" -> 7
      [] c = "8" -> 8 [] c = "9" -> 9

DigitChar(n) == <<"0", "1", "2", "3", "4", "5", "6", "7", "8", "9">>[n + 1]

\* the white space of the JSON grammar
IsJsonWs(c) == c \in {" ", NL, CR, TAB}

\* the white space of String.prototype.trim and of the \s class, restricted
\* to the characters of the model
IsSpace(c) == c \in {" ", NL, CR, TAB}

RECURSIVE IndexFrom(_, _, _)
IndexFrom(s, c, i) ==
    IF i > Len(s) THEN 0
    ELSE IF s[i] = c THEN i ELSE IndexFrom(s, c, i + 1)

IndexOf(s, c) == IndexFrom(s, c, 1)

RECURSIVE LastIndexFrom(_, _, _)
LastIndexFrom(s, c, i) ==
    IF i < 1 THEN 0
    ELSE IF s[i] = c THEN i ELSE LastIndexFrom(s, c, i - 1)

LastIndexOf(s, c) == LastIndexFrom(s, c, Len(s))

\* text.slice(start, end + 1) with 1-based inclusive bounds
Slice(s, from, to) == SubSeq(s, from, to)

RECURSIVE TrimStart(_)
TrimStart(s) ==
    IF s # << >> /\ IsSpace(Head(s)) THEN TrimStart(Tail(s)) ELSE s

RECURSIVE TrimEnd(_)
TrimEnd(s) ==
    IF s # << >> /\ IsSpace(s[Len(s)]) THEN TrimEnd(SubSeq(s, 1, Len(s) - 1)) ELSE s

Trim(s) == TrimEnd(TrimStart(s))

\* text.replace(/\s+/g, ' ')
RECURSIVE CollapseWs(_)
CollapseWs(s) ==
    IF s = << >> THEN << >>
    ELSE IF IsSpace(Head(s))
         THEN <<" ">> \o CollapseWs(TrimStart(s))
         ELSE <<Head(s)>> \o CollapseWs(Tail(s))

StartsWithAt(s, i, p) ==
    /\ i + Len(p) - 1 <= Len(s)
    /\ SubSeq(s, i, i + Len(p) - 1) = p

\* ------------------------------------------------------------------------
\* JSON values: the loosely typed tree JSON.parse returns
\* ------------------------------------------------------------------------
JStr(s) == [t |-> "str", s |-> s]
JNum(n) == [t |-> "num", n |-> n]
JBool(b) == [t |-> "bool", b |-> b]
JNull == [t |-> "null"]
JNaN == [t |-> "nan"]
JUndef == [t |-> "undef"]
JArr(items) == [t |-> "arr", items |-> items]
JObj(m) == [t |-> "obj", m |-> m]

EmptyMap == << >>

\* property assignment: a repeated key keeps one entry and takes the new value
PutKey(m, k, v) == (k :> v) @@ m

Fail == [ok |-> FALSE]
Ok(v, i) == [ok |-> TRUE, v |-> v, i |-> i]

\* ------------------------------------------------------------------------
\* JSON.parse: strict parsing of a text.  Numbers are the integer literals
\* of the JSON grammar (fractions and exponents do not occur in the texts
\* of the model).
\* ------------------------------------------------------------------------
RECURSIVE SkipWs(_, _)
SkipWs(s, i) ==
    IF i <= Len(s) /\ IsJsonWs(s[i]) THEN SkipWs(s, i + 1) ELSE i

HexDigits == Digits \cup {"a", "b", "c", "d", "e", "f", "A", "B", "C", "D", "E", "F"}

IsHex4(s, i) ==
    /\ i + 3 <= Len(s)
    /\ \A k \in i..(i + 3) : s[k] \in HexDigits

Lower(c) ==
    CASE c = "A" -> "a" [] c = "B" -> "b" [] c = "C" -> "c"
      [] c = "D" -> "d" [] c = "E" -> "e" [] c = "F" -> "f"
      [] OTHER -> c

\* String.fromCharCode(Number.parseInt(code, 16)) for the code units the
\* model names; every other code unit is the one character "U"
CodeOf(l) ==
    CASE l = Chars("0020") -> " "
      [] l = Chars("0022") -> DQ
      [] l = Chars("005c") -> BS
      [] l = Chars("000a") -> NL
      [] l = Chars("0041") -> "A"
      [] l = Chars("007b") -> "{"
      [] l = Chars("007d") -> "}"
      [] OTHER -> "U"

CodeUnit(h) == CodeOf([k \in 1..4 |-> Lower(h[k])])

\* the characters of a string literal from position i (after the opening
\* quote) up to the closing quote
RECURSIVE ScanString(_, _, _)
ScanString(s, i, acc) ==
    IF i > Len(s) THEN Fail
    ELSE IF s[i] = DQ THEN Ok(JStr(acc), i + 1)
    ELSE IF s[i] \in {NL, CR, TAB} THEN Fail
    ELSE IF s[i] # BS THEN ScanString(s, i + 1, Append(acc, s[i]))
    ELSE IF i + 1 > Len(s) THEN Fail
    ELSE LET e == s[i + 1] IN
         CASE e = DQ -> ScanString(s, i + 2, Append(acc, DQ))
           [] e = BS -> ScanString(s, i + 2, Append(acc, BS))
           [] e = "/" -> ScanString(s, i + 2, Append(acc, "/"))
           [] e = "n" -> ScanString(s, i + 2, Append(acc, NL))
           [] e = "r" -> ScanString(s, i + 2, Append(acc, CR))
           [] e = "t" -> ScanString(s, i + 2, Append(acc, TAB))
           [] e = "b" -> ScanString(s, i + 2, Append(acc, "BSP"))
           [] e = "f" -> ScanString(s, i + 2, Append(acc, "FF"))
           [] e = "u" -> IF IsHex4(s, i + 2)
                         THEN ScanString(s, i + 6,
                                  Append(acc, CodeUnit(SubSeq(s, i + 2, i + 5))))
                         ELSE Fail
           [] OTHER -> Fail

RECURSIVE ScanDigits(_, _, _)
ScanDigits(s, i, n) ==
    IF i <= Len(s) /\ s[i] \in Digits
    THEN ScanDigits(s, i + 1, 10 * n + DigitVal(s[i]))
    ELSE [n |-> n, i |-> i]

\* -?(0|[1-9][0-9]*)
ScanNumber(s, i) ==
    LET neg == s[i] = "-"
        j == IF neg THEN i + 1 ELSE i
    IN  IF j > Len(s) \/ s[j] \notin Digits THEN Fail
        ELSE IF s[j] = "0" THEN Ok(JNum(0), j + 1)
        ELSE LET d == ScanDigits(s, j, 0) IN
             Ok(JNum(IF neg THEN 0 - d.n ELSE d.n), d.i)

ScanLiteral(s, i) ==
    IF StartsWithAt(s, i, Chars("true")) THEN Ok(JBool(TRUE), i + 4)
    ELSE IF StartsWithAt(s, i, Chars("false")) THEN Ok(JBool(FALSE), i + 5)
    ELSE IF StartsWithAt(s, i, Chars("null")) THEN Ok(JNull, i + 4)
    ELSE Fail

RECURSIVE ParseValue(_, _)
RECURSIVE ParseItems(_, _, _)
RECURSIVE ParseMembers(_, _, _)

\* the elements of an array from position i, after "[" or after a ","
ParseItems(s, i, acc) ==
    LET r == ParseValue(s, i) IN
    IF ~r.ok THEN Fail
    ELSE LET j == SkipWs(s, r.i) IN
         IF j > Len(s) THEN Fail
         ELSE IF s[j] = "," THEN ParseItems(s, j + 1, Append(acc, r.v))
         ELSE IF s[j] = "]" THEN Ok(JArr(Append(acc, r.v)), j + 1)
         ELSE Fail

\* the members of an object from position i, after "{" or after a ","
ParseMembers(s, i, m) ==
    LET j == SkipWs(s, i) IN
    IF j > Len(s) \/ s[j] # DQ THEN Fail
    ELSE LET k == ScanString(s, j + 1, << >>) IN
         IF ~k.ok THEN Fail
         ELSE LET c == SkipWs(s, k.i) IN
              IF c > Len(s) \/ s[c] # ":" THEN Fail
              ELSE LET r == ParseValue(s, c + 1) IN
                   IF ~r.ok THEN Fail
                   ELSE LET e == SkipWs(s, r.i)
                            m2 == PutKey(m, k.v.s, r.v)
                        IN  IF e > Len(s) THEN Fail
                            ELSE IF s[e] = "," THEN ParseMembers(s, e + 1, m2)
                            ELSE IF s[e] = "}" THEN Ok(JObj(m2), e + 1)
                            ELSE Fail

ParseValue(s, i0) ==
    LET i == SkipWs(s, i0) IN
    IF i > Len(s) THEN Fail
    ELSE CASE s[i] = "{" ->
                LET j == SkipWs(s, i + 1) IN
                IF j <= Len(s) /\ s[j] = "}" THEN Ok(JObj(EmptyMap), j + 1)
                ELSE ParseMembers(s, i + 1, EmptyMap)
           [] s[i] = "[" ->
                LET j == SkipWs(s, i + 1) IN
                IF j <= Len(s) /\ s[j] = "]" THEN Ok(JArr(<< >>), j + 1)
                ELSE ParseItems(s, i + 1, << >>)
           [] s[i] = DQ -> ScanString(s, i + 1, << >>)
           [] s[i] \in Digits \cup {"-"} -> ScanNumber(s, i)
           [] OTHER -> ScanLiteral(s, i)

\* nothing but white space may follow the value
ParseEnd(s, r) ==
    IF r.ok /\ SkipWs(s, r.i) > Len(s) THEN [ok |-> TRUE, v |-> r.v] ELSE Fail

\* JSON.parse(s): the value, or a SyntaxError
JsonParse(s) == ParseEnd(s, ParseValue(s, 1))

\* ------------------------------------------------------------------------
\* JSON.stringify: plain JSON encoding.  Keys are written in insertion
\* order; the objects of the model have their keys inserted in KeyOrder.
\* ------------------------------------------------------------------------
KeyOrder ==
    <<Chars("a"), Chars("b"), Chars("action"), Chars("name"), Chars("score")>>

RECURSIVE NatText(_)
NatText(n) == IF n < 10 THEN <<DigitChar(n)>> ELSE NatText(n \div 10) \o <<DigitChar(n % 10)>>

NumText(n) == IF n < 0 THEN <<"-">> \o NatText(0 - n) ELSE NatText(n)

RECURSIVE QuoteChars(_)
QuoteChars(s) ==
    IF s = << >> THEN << >>
    ELSE LET c == Head(s)
             e == CASE c = DQ -> <<BS, DQ>>
                    [] c = BS -> <<BS, BS>>
                    [] c = NL -> <<BS, "n">>
                    [] c = CR -> <<BS, "r">>
                    [] c = TAB -> <<BS, "t">>
                    [] c = "BSP" -> <<BS, "b">>
                    [] c = "FF" -> <<BS, "f">>
                    [] OTHER -> <<c>>
         IN  e \o QuoteChars(Tail(s))

Quote(s) == <<DQ>> \o QuoteChars(s) \o <<DQ>>

RECURSIVE JoinWith(_, _)
JoinWith(parts, sep) ==
    IF parts = << >> THEN << >>
    ELSE IF Len(parts) = 1 THEN parts[1]
    ELSE parts[1] \o sep \o JoinWith(Tail(parts), sep)

KeysOf(m) == SelectSeq(KeyOrder, LAMBDA k : k \in DOMAIN m)

RECURSIVE Stringify(_)
Stringify(v) ==
    CASE v.t = "str" -> Quote(v.s)
      [] v.t = "num" -> NumText(v.n)
      [] v.t = "bool" -> IF v.b THEN Chars("true") ELSE Chars("false")
      [] v.t = "arr" ->
            <<"[">> \o JoinWith([k \in 1..Len(v.items) |-> Stringify(v.items[k])], <<",">>) \o <<"]">>
      [] v.t = "obj" ->
            LET ks == KeysOf(v.m) IN
            <<"{">> \o JoinWith([k \in 1..Len(ks) |->
                                   Quote(ks[k]) \o <<":">> \o Stringify(v.m[ks[k]])], <<",">>)
                    \o <<"}">>
      [] OTHER -> Chars("null")


\* ------------------------------------------------------------------------
\* jsonrepair (library): trailing commas are stripped and single-quoted
\* strings are turned into double-quoted ones, which leaves a strictly
\* valid text unchanged; the call throws when the result is not JSON.
\* q is the quote the scan is inside of ("" outside).
\* ------------------------------------------------------------------------
RECURSIVE RepairChars(_, _, _)
RepairChars(s, i, q) ==
    IF i > Len(s) THEN << >>
    ELSE LET c == s[i] IN
         IF q = "" THEN
            IF c = DQ THEN <<DQ>> \o RepairChars(s, i + 1, DQ)
            ELSE IF c = "'" THEN <<DQ>> \o RepairChars(s, i + 1, "'")
            ELSE IF c = "," /\ SkipWs(s, i + 1) <= Len(s)
                            /\ s[SkipWs(s, i + 1)] \in {"}", "]"}
                 THEN RepairChars(s, i + 1, q)
            ELSE <<c>> \o RepairChars(s, i + 1, q)
         ELSE
            IF c = BS /\ i < Len(s) THEN <<c, s[i + 1]>> \o RepairChars(s, i + 2, q)
            ELSE IF c = q THEN <<DQ>> \o RepairChars(s, i + 1, "")
            ELSE IF c = DQ THEN <<BS, DQ>> \o RepairChars(s, i + 1, q)
            ELSE <<c>> \o RepairChars(s, i + 1, q)

\* the repaired text, or a JSONRepairError
RepairedOrThrow(r) == IF JsonParse(r).ok THEN [ok |-> TRUE, s |-> r] ELSE Fail

JsonRepair(s) == RepairedOrThrow(RepairChars(s, 1, ""))

\* ------------------------------------------------------------------------
\* The coercions of JavaScript used by convertToPrimitive
\* ------------------------------------------------------------------------
RECURSIVE ToJSString(_)
ToJSString(v) ==
    CASE v.t = "str" -> v.s
      [] v.t = "num" -> NumText(v.n)
      [] v.t = "nan" -> Chars("NaN")
      [] v.t = "bool" -> IF v.b THEN Chars("true") ELSE Chars("false")
      [] v.t = "null" -> Chars("null")
      [] v.t = "undef" -> Chars("undefined")
      [] v.t = "arr" ->
            JoinWith([k \in 1..Len(v.items) |->
                        IF v.items[k].t \in {"null", "undef"} THEN << >>
                        ELSE ToJSString(v.items[k])], <<",">>)
      [] v.t = "obj" -> Chars("[object Object]")

\* StringToNumber: white space is stripped, the empty text is 0, a signed
\* run of decimal digits is its value, anything else is NaN
StringToNumber(s) ==
    LET t == Trim(s)
        signed == t # << >> /\ t[1] \in {"-", "+"}
        d == IF signed THEN Tail(t) ELSE t
    IN  IF t = << >> THEN JNum(0)
        ELSE IF d # << >> /\ \A k \in 1..Len(d) : d[k] \in Digits
             THEN JNum(IF t[1] = "-" THEN 0 - ScanDigits(d, 1, 0).n
                       ELSE ScanDigits(d, 1, 0).n)
        ELSE JNaN

\* Number(value)
ToJSNumber(v) ==
    CASE v.t = "num" -> v
      [] v.t = "nan" -> v
      [] v.t = "bool" -> JNum(IF v.b THEN 1 ELSE 0)
      [] v.t = "null" -> JNum(0)
      [] v.t = "undef" -> JNaN
      [] OTHER -> StringToNumber(ToJSString(v))

\* Boolean(value)
ToJSBoolean(v) ==
    CASE v.t = "bool" -> v.b
      [] v.t = "num" -> v.n # 0
      [] v.t = "str" -> v.s # << >>
      [] v.t \in {"nan", "null", "undef"} -> FALSE
      [] OTHER -> TRUE


\* ------------------------------------------------------------------------
\* Schemas (zod): the classes extractBySchemaType tests for, and what
\* schema.parse does with a value
\* ------------------------------------------------------------------------
ZString == [kind |-> "string"]
ZNumber == [kind |-> "number"]
ZBoolean == [kind |-> "boolean"]
ZNull == [kind |-> "null"]
ZDate == [kind |-> "date"]
ZLiteral(v) == [kind |-> "literal", value |-> v]
ZArray(e) == [kind |-> "array", element |-> e]
\* check is the refinement attached with .refine(): "none", "aIsX" (accepts
\* the objects whose a is "x") or "throws" (the callback throws an Error)
ZObject(shape) == [kind |-> "object", shape |-> shape, check |-> "none"]
ZRefine(obj, c) == [obj EXCEPT !.check = c]
ZUnion(opts) == [kind |-> "union", options |-> opts]
ZDiscriminatedUnion(key, opts) == [kind |-> "discriminatedUnion", key |-> key, options |-> opts]
ZOptional(inner) == [kind |-> "optional", inner |-> inner]
ZNullable(inner) == [kind |-> "nullable", inner |-> inner]
ZDefault(inner, d) == [kind |-> "default", inner |-> inner, def |-> d]
\* .transform(fn): fn is "addFlag" (adds b: true to the object) or "throws"
ZPipe(in, fn) == [kind |-> "pipe", in |-> in, fn |-> fn]

Valid(v) == [r |-> "ok", v |-> v]
Issues == [r |-> "issues"]
Raise == [r |-> "raise"]

\* the first result that is not ok, if any
Worst(rs) ==
    IF \E k \in DOMAIN rs : rs[k].r = "raise" THEN Raise
    ELSE IF \E k \in DOMAIN rs : rs[k].r = "issues" THEN Issues
    ELSE Valid(JNull)

RunCheck(c, v) ==
    CASE c = "none" -> Valid(v)
      [] c = "aIsX" -> IF Chars("a") \in DOMAIN v.m /\ v.m[Chars("a")] = JStr(Chars("x"))
                       THEN Valid(v) ELSE Issues
      [] c = "throws" -> Raise

RunTransform(fn, v) ==
    CASE fn = "addFlag" -> Valid(JObj(PutKey(v.m, Chars("b"), JBool(TRUE))))
      [] fn = "throws" -> Raise

RECURSIVE ZodRun(_, _)
RECURSIVE ZodUnionFrom(_, _, _)

ZodUnionFrom(opts, k, v) ==
    IF k > Len(opts) THEN Issues
    ELSE LET r == ZodRun(opts[k], v) IN
         IF r.r = "issues" THEN ZodUnionFrom(opts, k + 1, v) ELSE r

ZodRun(schema, v) ==
    CASE schema.kind = "string" -> IF v.t = "str" THEN Valid(v) ELSE Issues
      [] schema.kind = "number" -> IF v.t = "num" THEN Valid(v) ELSE Issues
      [] schema.kind = "boolean" -> IF v.t = "bool" THEN Valid(v) ELSE Issues
      [] schema.kind = "null" -> IF v.t = "null" THEN Valid(v) ELSE Issues
      [] schema.kind = "date" -> Issues
      [] schema.kind = "literal" -> IF v = schema.value THEN Valid(v) ELSE Issues
      [] schema.kind = "array" ->
            IF v.t # "arr" THEN Issues
            ELSE LET rs == [k \in 1..Len(v.items) |-> ZodRun(schema.element, v.items[k])] IN
                 IF Worst(rs).r # "ok" THEN Worst(rs)
                 ELSE Valid(JArr([k \in 1..Len(v.items) |-> rs[k].v]))
      [] schema.kind = "object" ->
            IF v.t # "obj" THEN Issues
            ELSE LET rs == [k \in DOMAIN schema.shape |->
                               ZodRun(schema.shape[k],
                                      IF k \in DOMAIN v.m THEN v.m[k] ELSE JUndef)]
                 IN  IF Worst(rs).r # "ok" THEN Worst(rs)
                     ELSE RunCheck(schema.check,
                              JObj([k \in {x \in DOMAIN rs : rs[x].v.t # "undef"} |-> rs[k].v]))
      [] schema.kind = "union" -> ZodUnionFrom(schema.options, 1, v)
      [] schema.kind = "discriminatedUnion" ->
            IF v.t # "obj" \/ schema.key \notin DOMAIN v.m THEN Issues
            ELSE LET hit == {k \in 1..Len(schema.options) :
                               schema.options[k].shape[schema.key].value = v.m[schema.key]}
                 IN  IF hit = {} THEN Issues
                     ELSE ZodRun(schema.options[CHOOSE k \in hit : TRUE], v)
      [] schema.kind = "optional" ->
            IF v.t = "undef" THEN Valid(v) ELSE ZodRun(schema.inner, v)
      [] schema.kind = "nullable" ->
            IF v.t = "null" THEN Valid(v) ELSE ZodRun(schema.inner, v)
      [] schema.kind = "default" ->
            IF v.t = "undef" THEN Valid(schema.def) ELSE ZodRun(schema.inner, v)
      [] schema.kind = "pipe" ->
            LET r == ZodRun(schema.in, v) IN
            IF r.r # "ok" THEN r ELSE RunTransform(schema.fn, r.v)

\* ------------------------------------------------------------------------
\* Outcomes of a call: a returned value or a thrown error
\* ------------------------------------------------------------------------
Return(v) == [kind |-> "ok", v |-> v]
Throw(e) == [kind |-> "throw", err |-> e]

NoCause == [name |-> "undefined"]
SyntaxError == [name |-> "SyntaxError"]
ZodError == [name |-> "ZodError"]
\* the Error a transform or refinement callback throws
CallbackError == [name |-> "Error", message |-> "callback failed"]

ParseObjectError(message, cause, text) ==
    [name |-> "ParseObjectError", message |-> message, cause |-> cause, text |-> text]


\* ------------------------------------------------------------------------
\* parse-text.ts: parseObject and its helpers
\* ------------------------------------------------------------------------
\* the module-level regex literals of parse-text.ts that carry the g flag
ReplaceRegexes ==
    {"INVISIBLE_CHARS_RE", "ASCII_CTRL_RE", "SPACE_LIKE_RE", "MULTIPLE_SPACES_RE",
     "CR_RE", "CITATION_RE", "EM_DASH_SEPARATOR_RE", "TYPOGRAPHY_REPLACEMENTS"}

GlobalRegexes == ReplaceRegexes \cup {"MARKDOWN_CODE_BLOCK_RE"}

\* str.replace(re, ...) with a global regex starts at index 0 and leaves
\* lastIndex at 0
AfterReplaces(last) == [re \in DOMAIN last |-> IF re \in ReplaceRegexes THEN 0 ELSE last[re]]

Fence == <<BT, BT, BT>>

\* whether \r?\n``` matches at position e
ClosesAt(s, e) ==
    \/ e <= Len(s) /\ s[e] = CR /\ StartsWithAt(s, e + 1, <<NL>> \o Fence)
    \/ StartsWithAt(s, e, <<NL>> \o Fence)

\* the end of \r?\n``` matched at position e
CloseEnd(s, e) == IF s[e] = CR THEN e + 5 ELSE e + 4

\* ([^`]*?)\r?\n``` from position e: the shortest run without a backtick
\* that is followed by the closing fence
RECURSIVE InteriorEnd(_, _)
InteriorEnd(s, e) ==
    IF e > Len(s) THEN 0
    ELSE IF ClosesAt(s, e) THEN e
    ELSE IF s[e] = BT THEN 0
    ELSE InteriorEnd(s, e + 1)

\* the match whose interior starts at from and ends before e (0: no match)
BlockMatch(s, from, e) ==
    IF e = 0 THEN Fail
    ELSE [ok |-> TRUE, from |-> from, to |-> e - 1, end |-> CloseEnd(s, e)]

\* \n([^`]*?)\r?\n``` from position k
BlockBody(s, k) ==
    IF k > Len(s) \/ s[k] # NL THEN Fail
    ELSE BlockMatch(s, k + 1, InteriorEnd(s, k + 1))

\* \r?\n([^`]*?)\r?\n``` from position j, after the opening fence and tag
BlockRest(s, j) == BlockBody(s, IF j <= Len(s) /\ s[j] = CR THEN j + 1 ELSE j)

\* (?:json)? is tried first with the tag, then without
TaggedOrNot(s, i, tagged) == IF tagged.ok THEN tagged ELSE BlockRest(s, i + 3)

\* MARKDOWN_CODE_BLOCK_RE matched at position i: the bounds of the captured
\* interior and the position after the match
MatchBlockAt(s, i) ==
    IF ~StartsWithAt(s, i, Fence) THEN Fail
    ELSE TaggedOrNot(s, i, IF StartsWithAt(s, i + 3, Chars("json"))
                           THEN BlockRest(s, i + 7) ELSE Fail)

\* text.match(MARKDOWN_CODE_BLOCK_RE): the matches from left to right,
\* each search starting where the previous match ended
RECURSIVE MatchBlocksFrom(_, _)
RECURSIVE MatchBlocksNext(_, _, _)

MatchBlocksNext(s, i, m) ==
    IF m.ok THEN <<SubSeq(s, i, m.end - 1)>> \o MatchBlocksFrom(s, m.end)
    ELSE MatchBlocksFrom(s, i + 1)

MatchBlocksFrom(s, i) ==
    IF i > Len(s) THEN << >> ELSE MatchBlocksNext(s, i, MatchBlockAt(s, i))

MatchBlocks(s) == MatchBlocksFrom(s, 1)

\* the leftmost match of MARKDOWN_CODE_BLOCK_RE that starts at i or later
RECURSIVE FirstBlockFrom(_, _)
FirstBlockFrom(s, i) ==
    IF i > Len(s) THEN Fail
    ELSE IF MatchBlockAt(s, i).ok
         THEN [ok |-> TRUE, at |-> i, end |-> MatchBlockAt(s, i).end]
    ELSE FirstBlockFrom(s, i + 1)

ExecResult(s, m) ==
    IF m.ok THEN [blocks |-> <<SubSeq(s, m.at, m.end - 1)>>, lastIndex |-> m.end - 1]
    ELSE [blocks |-> << >>, lastIndex |-> 0]

\* one MARKDOWN_CODE_BLOCK_RE.exec(text): the search starts at lastIndex and
\* leaves lastIndex at the end of the match
ExecOnce(s, last) == ExecResult(s, FirstBlockFrom(s, last + 1))

\* text.match(MARKDOWN_CODE_BLOCK_RE) with the g flag: lastIndex is set to 0
\* before the first search and is 0 again when no further match is found
MatchGlobal(s, last) == [blocks |-> MatchBlocksFrom(s, 1), lastIndex |-> 0]

\* the content if JSON.parse accepts it, else null ([ok |-> FALSE])
ParsableOrNull(content) ==
    IF JsonParse(content).ok THEN [ok |-> TRUE, s |-> content] ELSE Fail

\* block.replace(<the pattern>, '$1').trim()
BlockContent(block, m) == Trim(SubSeq(block, m.from, m.to))

ExtractJsonFromCodeBlock(block) ==
    ParsableOrNull(BlockContent(block, MatchBlockAt(block, 1)))

RECURSIVE FindJsonStructuresFrom(_, _, _, _)
FindJsonStructuresFrom(text, i, depth, start) ==
    IF i > Len(text) THEN << >>
    ELSE IF text[i] \in {"{", "["}
         THEN FindJsonStructuresFrom(text, i + 1, depth + 1,
                                     IF depth = 0 THEN i ELSE start)
    ELSE IF text[i] \in {"}", "]"}
         THEN (IF depth - 1 = 0 /\ start # 0 /\ JsonParse(Slice(text, start, i)).ok
               THEN <<Slice(text, start, i)>> ELSE << >>)
                  \o FindJsonStructuresFrom(text, i + 1, depth - 1, start)
    ELSE FindJsonStructuresFrom(text, i + 1, depth, start)

FindJsonStructures(text) == FindJsonStructuresFrom(text, 1, 0, 0)

RECURSIVE LongestFrom(_, _, _)
LongestFrom(strings, k, longest) ==
    IF k > Len(strings) THEN longest
    ELSE LongestFrom(strings, k + 1,
                     IF Len(strings[k]) > Len(longest) THEN strings[k] ELSE longest)

\* strings.reduce(...) without an initial value, on a non-empty array
FindLongestString(strings) == LongestFrom(strings, 2, strings[1])

\* codeBlocks.map(extractJsonFromCodeBlock).filter(block => block !== null)
RECURSIVE ValidBlocksOf(_)
ValidBlocksOf(codeBlocks) ==
    IF codeBlocks = << >> THEN << >>
    ELSE (IF ExtractJsonFromCodeBlock(Head(codeBlocks)).ok
          THEN <<BlockContent(Head(codeBlocks), MatchBlockAt(Head(codeBlocks), 1))>>
          ELSE << >>) \o ValidBlocksOf(Tail(codeBlocks))

ValidBlocks(text) == ValidBlocksOf(MatchBlocks(text))

\* the second and third tier of extractJsonString
StructuresOrText(text, structures) ==
    IF structures # << >> THEN FindLongestString(structures)
    ELSE Trim(CollapseWs(text))

BlocksOrStructures(text, validBlocks) ==
    IF validBlocks # << >> THEN FindLongestString(validBlocks)
    ELSE StructuresOrText(text, FindJsonStructures(text))

ExtractJsonString(text) == BlocksOrStructures(text, ValidBlocks(text))

\* a conversion that leaves the value alone for a null schema
ConvertNullUnforced(value, schema) ==
    CASE schema.kind = "boolean" -> JBool(ToJSBoolean(value))
      [] schema.kind = "number" -> ToJSNumber(value)
      [] schema.kind = "string" -> JStr(ToJSString(value))
      [] OTHER -> value

ConvertToPrimitive(value, schema) ==
    CASE schema.kind = "boolean" -> JBool(ToJSBoolean(value))
      [] schema.kind = "null" -> JNull
      [] schema.kind = "number" -> ToJSNumber(value)
      [] schema.kind = "string" -> JStr(ToJSString(value))
      [] OTHER -> value

\* the try block of extractPrimitive, or its catch block
ParsedOrRaw(parsed, trimmed) == IF parsed.ok THEN parsed.v ELSE JStr(trimmed)

PrimitiveOf(trimmed, schema) ==
    Return(ConvertToPrimitive(ParsedOrRaw(JsonParse(trimmed), trimmed), schema))

ExtractPrimitive(text, schema) == PrimitiveOf(Trim(text), schema)

\* JSON.parse(jsonrepair(raw)) inside its try block
ParseRepaired(repaired) == IF repaired.ok THEN JsonParse(repaired.s) ELSE Fail

RepairAndParse(raw) == ParseRepaired(JsonRepair(raw))

\* the value, or the catch block of extractArray / extractObject
ParsedOrThrow(parsed, message, originalText) ==
    IF parsed.ok THEN Return(parsed.v)
    ELSE Throw(ParseObjectError(message, SyntaxError, originalText))

ArrayBetween(text, start, end, originalText) ==
    IF start = 0 \/ end = 0
    THEN Throw(ParseObjectError("No array found in response", NoCause, originalText))
    ELSE ParsedOrThrow(RepairAndParse(Slice(text, start, end)),
                       "Failed to parse array JSON", originalText)

ExtractArray(text, originalText) ==
    ArrayBetween(text, IndexOf(text, "["), LastIndexOf(text, "]"), originalText)

\* extractObject handing undefined to validation when no object is delimited
ObjectBetweenOrUndefined(text, start, end, originalText) ==
    IF start = 0 \/ end = 0
    THEN Return(JUndef)
    ELSE ParsedOrThrow(RepairAndParse(Slice(text, start, end)),
                       "Failed to parse object JSON", originalText)

ObjectBetween(text, start, end, originalText) ==
    IF start = 0 \/ end = 0
    THEN Throw(ParseObjectError("No object found in response", NoCause, originalText))
    ELSE ParsedOrThrow(RepairAndParse(Slice(text, start, end)),
                       "Failed to parse object JSON", originalText)

\* extractObject attaching the candidate it searched in place of the input
ExtractObjectCandidateText(text, originalText) ==
    ObjectBetween(text, IndexOf(text, "{"), LastIndexOf(text, "}"), text)

\* extractObject looking in the input when the candidate holds no object
ExtractObjectElsewhere(text, originalText) ==
    IF IndexOf(text, "{") = 0 \/ LastIndexOf(text, "}") = 0
    THEN ObjectBetween(originalText, IndexOf(originalText, "{"),
                       LastIndexOf(originalText, "}"), originalText)
    ELSE ObjectBetween(text, IndexOf(text, "{"), LastIndexOf(text, "}"), originalText)

ExtractObject(text, originalText) ==
    ObjectBetween(text, IndexOf(text, "{"), LastIndexOf(text, "}"), originalText)

\* a union branch that looks for an array before it looks for an object
ExtractUnionArrayFirst(text, originalText) ==
    IF IndexOf(text, "[") # 0 THEN ExtractArray(text, originalText)
    ELSE IF IndexOf(text, "{") # 0 THEN ExtractObject(text, originalText)
    ELSE Throw(ParseObjectError("No object or array found for union type",
                                NoCause, originalText))

\* the branch for ZodUnion and ZodDiscriminatedUnion
ExtractUnion(text, originalText) ==
    IF IndexOf(text, "{") # 0 THEN ExtractObject(text, originalText)
    ELSE IF IndexOf(text, "[") # 0 THEN ExtractArray(text, originalText)
    ELSE Throw(ParseObjectError("No object or array found for union type",
                                NoCause, originalText))

\* a default wrapper that loses the type it wraps
InnerTypeLost(schema) == ZString

\* schema.def.innerType of a ZodDefault
InnerType(schema) == schema.inner

\* a last statement that returns nothing where the code throws
UnsupportedReturnsUndefined(originalText) == Return(JUndef)

\* the last statement of extractBySchemaType
Unsupported(originalText) ==
    Throw(ParseObjectError("Unsupported schema type", NoCause, originalText))

RECURSIVE ExtractBySchemaType(_, _, _)
ExtractBySchemaType(text, schema, originalText) ==
    CASE schema.kind = "array" -> ExtractArray(text, originalText)
      [] schema.kind = "object" -> ExtractObject(text, originalText)
      [] schema.kind \in {"boolean", "null", "number", "string"} ->
            ExtractPrimitive(text, schema)
      [] schema.kind \in {"union", "discriminatedUnion"} ->
            ExtractUnion(text, originalText)
      [] schema.kind \in {"optional", "nullable"} ->
            ExtractBySchemaType(text, schema.inner, originalText)
      [] schema.kind = "default" ->
            ExtractBySchemaType(text, InnerType(schema), originalText)
      [] schema.kind = "pipe" ->
            ExtractBySchemaType(text, schema.in, originalText)
      [] OTHER -> Unsupported(originalText)

\* text.replace(/\\x/g, to) for a two-character pattern backslash + x
RECURSIVE ReplaceEscape(_, _, _)
ReplaceEscape(s, x, to) ==
    IF s = << >> THEN << >>
    ELSE IF Len(s) >= 2 /\ s[1] = BS /\ s[2] = x
         THEN <<to>> \o ReplaceEscape(SubSeq(s, 3, Len(s)), x, to)
         ELSE <<Head(s)>> \o ReplaceEscape(Tail(s), x, to)

\* text.replace(/\\u([0-9a-fA-F]{4})/g, ...)
RECURSIVE ReplaceUnicode(_)
ReplaceUnicode(s) ==
    IF s = << >> THEN << >>
    ELSE IF Len(s) >= 6 /\ s[1] = BS /\ s[2] = "u" /\ IsHex4(s, 3)
         THEN <<CodeUnit(SubSeq(s, 3, 6))>> \o ReplaceUnicode(SubSeq(s, 7, Len(s)))
         ELSE <<Head(s)>> \o ReplaceUnicode(Tail(s))

\* the escapes of a leaf decoded in one pass from left to right
RECURSIVE DecodeEscapes(_)
DecodeEscapes(s) ==
    IF s = << >> THEN << >>
    ELSE IF Len(s) >= 2 /\ s[1] = BS /\ s[2] \in {DQ, BS, "n", "r", "t"}
         THEN <<CASE s[2] = DQ -> DQ [] s[2] = BS -> BS [] s[2] = "n" -> NL
                  [] s[2] = "r" -> CR [] s[2] = "t" -> TAB>>
                  \o DecodeEscapes(SubSeq(s, 3, Len(s)))
    ELSE IF Len(s) >= 6 /\ s[1] = BS /\ s[2] = "u" /\ IsHex4(s, 3)
         THEN <<CodeUnit(SubSeq(s, 3, 6))>> \o DecodeEscapes(SubSeq(s, 7, Len(s)))
    ELSE <<Head(s)>> \o DecodeEscapes(Tail(s))

UnescapeString(text) ==
    ReplaceUnicode(
        ReplaceEscape(
            ReplaceEscape(
                ReplaceEscape(
                    ReplaceEscape(
                        ReplaceEscape(text, DQ, DQ),
                        "n", NL),
                    "r", CR),
                "t", TAB),
            BS, BS))

RECURSIVE UnescapeJsonValues(_)
UnescapeJsonValues(json) ==
    CASE json.t = "str" -> JStr(UnescapeString(json.s))
      [] json.t = "arr" ->
            JArr([k \in 1..Len(json.items) |-> UnescapeJsonValues(json.items[k])])
      [] json.t = "obj" ->
            JObj([k \in DOMAIN json.m |-> UnescapeJsonValues(json.m[k])])
      [] OTHER -> json

\* what schema.parse ends with: the parsed value, a ZodError, or the Error
\* a callback threw
ParseResult(r) ==
    CASE r.r = "ok" -> Return(r.v)
      [] r.r = "issues" -> Throw(ZodError)
      [] r.r = "raise" -> Throw(CallbackError)

\* a last statement that returns the value without validating it
SchemaParseSkipped(schema, value) == Return(value)

SchemaParse(schema, value) == ParseResult(ZodRun(schema, value))

\* a catch block that lets every error through as it came
RethrowUnwrapped(error, text) == Throw(error)

\* the catch block of parseObject
Rethrow(error, text) ==
    IF error.name = "ParseObjectError" THEN Throw(error)
    ELSE IF error.name = "ZodError"
         THEN Throw(ParseObjectError("Failed to validate response against schema",
                                     error, text))
    ELSE Throw(error)

\* a statement of the try block of parseObject ends: it returned, or it
\* threw and the catch block rethrows
Caught(r, text) == IF r.kind = "throw" THEN Rethrow(r.err, text) ELSE r

\* unescapeJsonValues and schema.parse, reached when extraction returned
ValidateExtracted(extracted, schema, text) ==
    IF extracted.kind = "throw" THEN extracted
    ELSE Caught(SchemaParse(schema, UnescapeJsonValues(extracted.v)), text)

ParseObject(text, schema) ==
    ValidateExtracted(
        Caught(ExtractBySchemaType(ExtractJsonString(text), schema, text), text),
        schema, text)

\* ------------------------------------------------------------------------
\* Inputs of the model
\* ------------------------------------------------------------------------
MaxLeafLen == 2
MaxParts == 3

RECURSIVE SeqsUpTo(_, _)
SeqsUpTo(S, n) ==
    IF n = 0 THEN {<< >>}
    ELSE LET shorter == SeqsUpTo(S, n - 1) IN
         shorter \cup {Append(q, c) : q \in shorter, c \in S}

RECURSIVE Flatten(_)
Flatten(parts) == IF parts = << >> THEN << >> ELSE Head(parts) \o Flatten(Tail(parts))

KeyA == Chars("a")
KeyB == Chars("b")

ObjA == ZObject(KeyA :> ZString)
ObjAB == ZObject((KeyA :> ZString) @@ (KeyB :> ZArray(ZNumber)))
ArrStr == ZArray(ZString)
DefaultA == JObj(KeyA :> JStr(Chars("dflt")))
WrappedObjA == ZDefault(ZNullable(ZOptional(ObjA)), DefaultA)
UnionObjArr == ZUnion(<<ObjA, ArrStr>>)
ArrUnion == ZUnion(<<ZArray(ZString), ZArray(ZNumber), ZArray(ObjA)>>)
LitX == ZLiteral(JStr(Chars("x")))
LitN == ZLiteral(JStr(Chars("n")))
DiscUnion ==
    ZDiscriminatedUnion(KeyA, <<ZObject(KeyA :> LitX),
                                ZObject((KeyA :> LitN) @@ (KeyB :> ZArray(ZNumber)))>>)

\* object schemas under wrappers, and schemas of no supported kind
WrappedObjects ==
    {WrappedObjA, ZOptional(ObjA), ZNullable(ZRefine(ObjA, "aIsX")),
     ZDefault(ObjAB, DefaultA)}

\* the null schema under wrappers
WrappedNulls == {ZOptional(ZNull), ZDefault(ZNullable(ZNull), JNull)}

UnsupportedSchemas == {ZDate, ZOptional(ZDate), ZPipe(ZNullable(LitX), "addFlag")}

Schemas ==
    {ObjA, ObjAB, ArrStr, ZString, ZNumber, ZBoolean, ZNull,
     ZPipe(ObjA, "throws"), ZPipe(ObjA, "addFlag"), ZRefine(ObjA, "aIsX"),
     UnionObjArr, ArrUnion, DiscUnion}
        \cup WrappedObjects \cup WrappedNulls \cup UnsupportedSchemas

\* the string leaves of the values that are serialized
LeafChars == {"x", "n", BS, "}", " "}
LeafStrings == SeqsUpTo(LeafChars, MaxLeafLen)

OneTwo == JArr(<<JNum(1), JNum(2)>>)

Values ==
    {JObj(KeyA :> JStr(l)) : l \in LeafStrings}
        \cup {JObj((KeyA :> JStr(l)) @@ (KeyB :> OneTwo)) : l \in LeafStrings}
        \cup {JArr(<<JStr(l)>>) : l \in LeafStrings}

Fenced(s) == Fence \o Chars("json\n") \o s \o <<NL>> \o Fence

\* the pieces model responses are made of
Fragments ==
    {Chars("{\"a\":\"x\"}"),
     Chars("{\"a\":\"x\",\"b\":[1,2]}"),
     Chars("[\"x\"]"),
     Chars("{bad}"),
     Fenced(Chars("{\"a\":\"x\"}")),
     Fenced(<<"{", DQ, "a", DQ, ":", DQ, BT, DQ, "}">>),
     Chars("no  data\n"),
     Chars("]")}

FragmentTexts == {Flatten(q) : q \in SeqsUpTo(Fragments, MaxParts)}

\* responses to a request for a primitive
PrimitiveTexts ==
    {Chars("true"), Chars("false"), Chars(" true\n"), Chars("yes"),
     Chars("\"false\""), Chars("42"), Chars("0"), Chars("-7"), Chars("abc"),
     Chars("null"), Chars("\"x y\""), Chars("x  y")}

\* arrays of numbers and of objects
ArrayTexts == {Chars("[1,2]"), Chars("[{\"a\":\"x\"}]"), Chars("[]")}

\* objects whose leaf holds escapes that survive JSON.parse: two backslashes
\* and n, two backslashes and u0041, a backslash and u0041
EscapeTexts ==
    {Chars("{\"a\":\"\\\\\\\\n\"}"), Chars("{\"a\":\"\\\\\\\\u0041\"}"),
     Chars("{\"a\":\"\\\\u0041\"}")}

ParseTexts ==
    FragmentTexts \cup PrimitiveTexts \cup ArrayTexts \cup EscapeTexts
        \cup {Stringify(v) : v \in Values}

\* ------------------------------------------------------------------------
\* parseObject, statement by statement
\* ------------------------------------------------------------------------
NoOutcome == [kind |-> "none"]

NoResponse == [kind |-> "none"]

NoResult == [success |-> "none"]

DefaultOptions == [normalizeEmDashesToCommas |-> TRUE, collapseSpaces |-> TRUE]

\* no generateStructured call and no parseText call is under way
GenIdle ==
    /\ gpc = "idle"
    /\ response = NoResponse
    /\ result = NoResult
    /\ modelCalls = 0
    /\ extractions = 0

TextIdle == textIn = << >> /\ textOpts = DefaultOptions /\ textOut = << >>

\* parse-text.ts as it is once loaded: every regex literal has lastIndex 0
ModuleLoaded ==
    /\ lastIndex = [re \in GlobalRegexes |-> 0]
    /\ calls = << >>

NoRun == [kind |-> "none"]

\* no ResilientAgent.run call is under way
RetryIdle ==
    /\ retries = 0
    /\ attempt = 0
    /\ rpc = "idle"
    /\ agentRuns = << >>
    /\ runResult = NoRun

\* the locals of a parseObject call before its first statement
ParseLocalsFresh ==
    /\ located = << >>
    /\ extractedV = JUndef
    /\ unescapedV = JUndef
    /\ outcome = NoOutcome

InitParse ==
    /\ inText \in ParseTexts
    /\ inSchema \in Schemas
    /\ pc = "start"
    /\ ParseLocalsFresh
    /\ GenIdle
    /\ TextIdle
    /\ ModuleLoaded
    /\ RetryIdle

\* the candidate chosen from the matches of the fenced pattern, and the
\* lastIndex the matching leaves in the pattern
Located(m) ==
    /\ located' = BlocksOrStructures(inText, ValidBlocksOf(m.blocks))
    /\ lastIndex' = [lastIndex EXCEPT !["MARKDOWN_CODE_BLOCK_RE"] = m.lastIndex]

\* const jsonString = extractJsonString(text)
Locate ==
    /\ pc = "start"
    /\ Located(MatchGlobal(inText, lastIndex["MARKDOWN_CODE_BLOCK_RE"]))
    /\ pc' = "located"
    /\ UNCHANGED <<inText, inSchema, extractedV, unescapedV, outcome, genVars, textVars,
                   calls, retryVars>>

\* extractBySchemaType returned r, or threw and the catch block ends the call
Extracted(r) ==
    /\ extractedV' = IF r.kind = "ok" THEN r.v ELSE extractedV
    /\ outcome' = IF r.kind = "ok" THEN outcome ELSE r
    /\ pc' = IF r.kind = "ok" THEN "extracted" ELSE "done"

\* const extracted = extractBySchemaType(jsonString, schema, text)
Extract ==
    /\ pc = "located"
    /\ Extracted(Caught(ExtractBySchemaType(located, inSchema, inText), inText))
    /\ UNCHANGED <<inText, inSchema, located, unescapedV, genVars, textVars, moduleVars, retryVars>>

\* const unescaped = unescapeJsonValues(extracted)
Unescape ==
    /\ pc = "extracted"
    /\ unescapedV' = UnescapeJsonValues(extractedV)
    /\ pc' = "unescaped"
    /\ UNCHANGED <<inText, inSchema, located, extractedV, outcome, genVars, textVars, moduleVars, retryVars>>

\* return schema.parse(unescaped), or the catch block when it throws
Validate ==
    /\ pc = "unescaped"
    /\ outcome' = Caught(SchemaParse(inSchema, unescapedV), inText)
    /\ pc' = "done"
    /\ UNCHANGED <<inText, inSchema, located, extractedV, unescapedV, genVars, textVars, moduleVars, retryVars>>

NextParse ==
    \/ Locate
    \/ Extract
    \/ Unescape
    \/ Validate

SpecParse == InitParse /\ [][NextParse]_vars

\* the staged call ends as the call computed in one piece
ParseStagesAgree == pc = "done" => outcome = ParseObject(inText, inSchema)

\* ------------------------------------------------------------------------
\* result.ts
\* ------------------------------------------------------------------------

GenerationErrorCode ==
    {"AI_GENERATION_FAILED", "EMPTY_RESULT", "PARSING_FAILED",
     "RATE_LIMITED", "TIMEOUT", "VALIDATION_FAILED"}

generationSuccess(data) == [success |-> TRUE, data |-> data]

generationFailure(code, message, cause) ==
    [success |-> FALSE, error |-> [code |-> code, message |-> message, cause |-> cause]]

\* a thrown Error with its message, and a thrown value that is no Error
JsError(message) == [name |-> "Error", message |-> message]

NotAnError == [name |-> "NotAnError"]

\* error instanceof Error
InstanceOfError(error) == error.name # "NotAnError"

UpperCase == Chars("ABCDEFGHIJKLMNOPQRSTUVWXYZ")

LowerCase == Chars("abcdefghijklmnopqrstuvwxyz")

ToLowerChar(c) ==
    IF \E k \in DOMAIN UpperCase : UpperCase[k] = c
    THEN LowerCase[CHOOSE k \in DOMAIN UpperCase : UpperCase[k] = c]
    ELSE c

\* a comparison that keeps the case of the message
KeepCase(str) == str

\* String.prototype.toLowerCase
ToLowerCase(str) == [k \in DOMAIN str |-> ToLowerChar(str[k])]

\* String.prototype.includes
Includes(str, sub) == \E i \in 1..(Len(str) + 1) : StartsWithAt(str, i, sub)

\* a classifyError that files what it does not recognise under a code of its own
ClassifyUnknown(message) ==
    IF Includes(message, Chars("timeout")) \/ Includes(message, Chars("timed out"))
    THEN "TIMEOUT"
    ELSE "UNKNOWN"

\* the same tests made in the opposite order
ClassifyLastMatch(message) ==
    IF \/ Includes(message, Chars("valid"))
       \/ Includes(message, Chars("schema"))
       \/ Includes(message, Chars("zod"))
    THEN "VALIDATION_FAILED"
    ELSE IF \/ Includes(message, Chars("parse"))
            \/ Includes(message, Chars("json"))
            \/ Includes(message, Chars("unexpected token"))
    THEN "PARSING_FAILED"
    ELSE IF Includes(message, Chars("rate limit")) \/ Includes(message, Chars("429"))
    THEN "RATE_LIMITED"
    ELSE IF Includes(message, Chars("timeout")) \/ Includes(message, Chars("timed out"))
    THEN "TIMEOUT"
    ELSE "AI_GENERATION_FAILED"

\* the chain of tests on the lower-cased message; "" when none matches
ClassifyMessage(message) ==
    IF Includes(message, Chars("timeout")) \/ Includes(message, Chars("timed out"))
    THEN "TIMEOUT"
    ELSE IF Includes(message, Chars("rate limit")) \/ Includes(message, Chars("429"))
    THEN "RATE_LIMITED"
    ELSE IF \/ Includes(message, Chars("parse"))
            \/ Includes(message, Chars("json"))
            \/ Includes(message, Chars("unexpected token"))
    THEN "PARSING_FAILED"
    ELSE IF \/ Includes(message, Chars("valid"))
            \/ Includes(message, Chars("schema"))
            \/ Includes(message, Chars("zod"))
    THEN "VALIDATION_FAILED"
    ELSE "AI_GENERATION_FAILED"

classifyError(error) ==
    IF InstanceOfError(error) THEN ClassifyMessage(ToLowerCase(error.message))
    ELSE "AI_GENERATION_FAILED"

\* ------------------------------------------------------------------------
\* generateStructured
\* ------------------------------------------------------------------------

\* what the model call can throw
ModelErrorMessages ==
    {Chars("Request timed out"), Chars("Connection TIMEOUT"),
     Chars("Rate limit exceeded"), Chars("HTTP 429"),
     Chars("Unexpected token < in JSON"), Chars("Failed to parse"),
     Chars("Invalid API key"), Chars("schema mismatch"), Chars("ZodError"),
     Chars("Timeout after rate limit 429"), Chars("JSON schema mismatch"),
     Chars("Invalid JSON, HTTP 429"), Chars("boom"), << >>}

ModelErrors == {JsError(m) : m \in ModelErrorMessages} \cup {NotAnError}

\* what response.text can be
ResponseTexts ==
    {JUndef, JStr(<< >>), JStr(Chars("  \n")), JStr(Chars("\t\r\n"))} \cup {JStr(t) : t \in ParseTexts}

\* an emptiness test that forgets to trim
IsMissingText(text) == IF text.t # "str" THEN TRUE ELSE text.s = << >>

\* !response.text || response.text.trim() === ""
IsEmptyText(text) == IF text.t # "str" THEN TRUE ELSE Trim(text.s) = << >>

InitGen ==
    /\ inSchema \in Schemas
    /\ inText = << >>
    /\ pc = "idle"
    /\ ParseLocalsFresh
    /\ gpc = "start"
    /\ response = NoResponse
    /\ result = NoResult
    /\ modelCalls = 0
    /\ extractions = 0
    /\ TextIdle
    /\ ModuleLoaded
    /\ RetryIdle

\* a return statement that let the call start over
AfterReturnStartOver == "start"

\* where a return statement of generateStructured leaves the call: at its end
AfterReturn == "done"

\* await generateText(...) resolves with a response
GenerateTextResolves ==
    /\ gpc = "start"
    /\ \E t \in ResponseTexts : response' = [kind |-> "ok", text |-> t]
    /\ gpc' = "responded"
    /\ modelCalls' = modelCalls + 1
    /\ UNCHANGED <<parseVars, result, extractions, textVars, moduleVars, retryVars>>

\* await generateText(...) rejects
GenerateTextRejects ==
    /\ gpc = "start"
    /\ \E e \in ModelErrors : response' = [kind |-> "throw", err |-> e]
    /\ gpc' = "rejected"
    /\ modelCalls' = modelCalls + 1
    /\ UNCHANGED <<parseVars, result, extractions, textVars, moduleVars, retryVars>>

\* if (!response.text || response.text.trim() === "") return generationFailure(...)
EmptyResult ==
    /\ gpc = "responded"
    /\ IsEmptyText(response.text)
    /\ result' = generationFailure("EMPTY_RESULT", Chars("AI returned empty response"), NoCause)
    /\ gpc' = AfterReturn
    /\ UNCHANGED <<parseVars, response, modelCalls, extractions, textVars, moduleVars, retryVars>>

\* parseObject(response.text, schema) is entered
CallParseObject ==
    /\ gpc = "responded"
    /\ ~IsEmptyText(response.text)
    /\ inText' = response.text.s
    /\ pc' = "start"
    /\ gpc' = "parsing"
    /\ extractions' = extractions + 1
    /\ UNCHANGED <<inSchema, located, extractedV, unescapedV, outcome,
                   response, result, modelCalls, textVars, moduleVars, retryVars>>

\* return generationSuccess(data)
ParseObjectReturns ==
    /\ gpc = "parsing"
    /\ pc = "done"
    /\ outcome.kind = "ok"
    /\ result' = generationSuccess(outcome.v)
    /\ gpc' = AfterReturn
    /\ UNCHANGED <<parseVars, response, modelCalls, extractions, textVars, moduleVars, retryVars>>

\* the inner catch block
ParseObjectFailure(error) ==
    IF error.name = "ParseObjectError"
    THEN generationFailure("PARSING_FAILED", Chars(error.message), error)
    ELSE generationFailure("VALIDATION_FAILED", Chars("Schema validation failed"), error)

ParseObjectThrows ==
    /\ gpc = "parsing"
    /\ pc = "done"
    /\ outcome.kind = "throw"
    /\ result' = ParseObjectFailure(outcome.err)
    /\ gpc' = AfterReturn
    /\ UNCHANGED <<parseVars, response, modelCalls, extractions, textVars, moduleVars, retryVars>>

\* error instanceof Error ? error.message : "Unknown error"
MessageOf(error) ==
    IF InstanceOfError(error) THEN error.message ELSE Chars("Unknown error")

\* the outer catch block
GenerateTextFailure(error) ==
    generationFailure(classifyError(error), MessageOf(error), error)

CatchRejection ==
    /\ gpc = "rejected"
    /\ result' = GenerateTextFailure(response.err)
    /\ gpc' = AfterReturn
    /\ UNCHANGED <<parseVars, response, modelCalls, extractions, textVars, moduleVars, retryVars>>

\* the statements generateStructured runs once the model call has settled
ContinueGen ==
    \/ EmptyResult
    \/ CallParseObject
    \/ Locate
    \/ Extract
    \/ Unescape
    \/ Validate
    \/ ParseObjectReturns
    \/ ParseObjectThrows
    \/ CatchRejection

NextGen ==
    \/ GenerateTextResolves
    \/ GenerateTextRejects
    \/ ContinueGen

SpecGen == InitGen /\ [][NextGen]_vars

\* ------------------------------------------------------------------------
\* parseText
\* ------------------------------------------------------------------------

\* characters outside ASCII, by name
BOM == "U+FEFF"
ZWSP == "U+200B"
NBSP == "U+00A0"
OGHAM == "U+1680"
NUL == "U+0000"
FWLP == "U+FF08"
FWRP == "U+FF09"
EMDASH == "U+2014"
HBAR == "U+2015"
ELLIPSIS == "U+2026"
LDQUO == "U+201C"
BULLET == "U+2022"

\* INVISIBLE_CHARS_RE, ASCII_CTRL_RE, SPACE_LIKE_RE and the dashes of
\* EM_DASH_SEPARATOR_RE, over the characters of the model
InvisibleChars == {ZWSP, BOM}

AsciiCtrl == {NUL}

SpaceLike == {NBSP, OGHAM}

SeparatorDashes == {EMDASH, HBAR}

\* \s of a regular expression
RegexSpace == {" ", NL, CR, TAB, NBSP, OGHAM, BOM}

IsRegexSpace(c) == c \in RegexSpace

\* str.replace(/[set]/g, '')
Remove(str, set) == SelectSeq(str, LAMBDA c : c \notin set)

\* if (result.charCodeAt(0) === 0xfeff) result = result.slice(1)
StripBom(str) == IF str # << >> /\ str[1] = BOM THEN Tail(str) ELSE str

\* result.replace(CR_RE, '\n')
RECURSIVE ReplaceCr(_)
ReplaceCr(str) ==
    IF str = << >> THEN << >>
    ELSE IF Len(str) >= 2 /\ str[1] = CR /\ str[2] = NL
         THEN <<NL>> \o ReplaceCr(SubSeq(str, 3, Len(str)))
    ELSE IF str[1] = CR THEN <<NL>> \o ReplaceCr(Tail(str))
    ELSE <<Head(str)>> \o ReplaceCr(Tail(str))

\* the position after the longest run of characters of the set from i
RECURSIVE SkipWhile(_, _, _)
SkipWhile(str, i, set) ==
    IF i <= Len(str) /\ str[i] \in set THEN SkipWhile(str, i + 1, set) ELSE i

\* lit followed by \d+ from position i: the position after, 0 if no match
LiteralDigits(str, i, lit) ==
    IF StartsWithAt(str, i, lit) /\ SkipWhile(str, i + Len(lit), Digits) > i + Len(lit)
    THEN SkipWhile(str, i + Len(lit), Digits)
    ELSE 0

\* a literal from position i, 0 carried through: the position after, or 0
LiteralAt(str, i, lit) ==
    IF i # 0 /\ StartsWithAt(str, i, lit) THEN i + Len(lit) ELSE 0

IndexDigits(str, i) == IF i = 0 THEN 0 ELSE LiteralDigits(str, i, Chars("{index="))

\* CITATION_RE matched at position i: the position after the match, or 0
CitationAt(str, i) ==
    LiteralAt(str,
              IndexDigits(str,
                          LiteralAt(str,
                                    LiteralDigits(str, SkipWhile(str, i, {" "}),
                                                  Chars("(oaicite:")),
                                    <<")">>)),
              <<"}">>)

\* result.replace(CITATION_RE, '')
RECURSIVE RemoveCitations(_, _)
RemoveCitations(str, i) ==
    IF i > Len(str) THEN << >>
    ELSE IF CitationAt(str, i) # 0 THEN RemoveCitations(str, CitationAt(str, i))
    ELSE <<str[i]>> \o RemoveCitations(str, i + 1)

\* what NFKC makes of one character
NfkcChar(c) ==
    CASE c = FWLP -> <<"(">>
      [] c = FWRP -> <<")">>
      [] c = NBSP -> <<" ">>
      [] c = ELLIPSIS -> <<".", ".", ".">>
      [] OTHER -> <<c>>

\* result.normalize('NFKC')
RECURSIVE Nfkc(_)
Nfkc(str) == IF str = << >> THEN << >> ELSE NfkcChar(Head(str)) \o Nfkc(Tail(str))

\* EM_DASH_SEPARATOR_RE matched at position i: the position after, or 0.
\* From whitespace the first alternative needs the whole run, then a dash;
\* from a dash the second alternative needs whitespace after it.
DashAfterSpaces(str, k) ==
    IF k <= Len(str) /\ str[k] \in SeparatorDashes
    THEN SkipWhile(str, k + 1, RegexSpace)
    ELSE 0

DashSeparatorAt(str, i) ==
    IF IsRegexSpace(str[i]) THEN DashAfterSpaces(str, SkipWhile(str, i, RegexSpace))
    ELSE IF str[i] \in SeparatorDashes /\ SkipWhile(str, i + 1, RegexSpace) > i + 1
    THEN SkipWhile(str, i + 1, RegexSpace)
    ELSE 0

\* result.replace(EM_DASH_SEPARATOR_RE, ', ')
RECURSIVE DashesToCommas(_, _)
DashesToCommas(str, i) ==
    IF i > Len(str) THEN << >>
    ELSE IF DashSeparatorAt(str, i) # 0
         THEN <<",", " ">> \o DashesToCommas(str, DashSeparatorAt(str, i))
    ELSE <<str[i]>> \o DashesToCommas(str, i + 1)

\* result.replace(SPACE_LIKE_RE, ' ')
SpaceLikeToSpace(str) == [k \in DOMAIN str |-> IF str[k] \in SpaceLike THEN " " ELSE str[k]]

\* TYPOGRAPHY_REPLACEMENTS applied to one character
TypographyChar(c) ==
    CASE c = LDQUO -> <<DQ>>
      [] c = EMDASH -> <<"-">>
      [] c = ELLIPSIS -> <<".", ".", ".">>
      [] c = BULLET -> <<"-">>
      [] OTHER -> <<c>>

RECURSIVE Typography(_)
Typography(str) ==
    IF str = << >> THEN << >> ELSE TypographyChar(Head(str)) \o Typography(Tail(str))

\* result.replace(MULTIPLE_SPACES_RE, ' ')
RECURSIVE CollapseSpaces(_)
CollapseSpaces(str) ==
    IF str = << >> THEN << >>
    ELSE IF Len(str) >= 2 /\ str[1] = " " /\ str[2] = " " THEN CollapseSpaces(Tail(str))
    ELSE <<Head(str)>> \o CollapseSpaces(Tail(str))

\* String.prototype.trim
RECURSIVE TrimJs(_)
TrimJs(str) ==
    IF str = << >> THEN << >>
    ELSE IF IsRegexSpace(str[1]) THEN TrimJs(Tail(str))
    ELSE IF IsRegexSpace(str[Len(str)]) THEN TrimJs(SubSeq(str, 1, Len(str) - 1))
    ELSE str

\* the two optional steps
CommasIf(enabled, str) == IF enabled THEN DashesToCommas(str, 1) ELSE str

CollapseIf(enabled, str) == IF enabled THEN TrimJs(CollapseSpaces(str)) ELSE str

\* the typography replacements made before the dash separators are looked for
parseTextTypographyFirst(text, options) ==
    IF text = << >> THEN << >>
    ELSE CollapseIf(options.collapseSpaces,
            SpaceLikeToSpace(
              CommasIf(options.normalizeEmDashesToCommas,
                Typography(
                  Remove(
                    Remove(
                      Nfkc(RemoveCitations(ReplaceCr(StripBom(text)), 1)),
                      InvisibleChars),
                    AsciiCtrl)))))

parseText(text, options) ==
    IF text = << >> THEN << >>
    ELSE CollapseIf(options.collapseSpaces,
            Typography(
              SpaceLikeToSpace(
                CommasIf(options.normalizeEmDashesToCommas,
                  Remove(
                    Remove(
                      Nfkc(RemoveCitations(ReplaceCr(StripBom(text)), 1)),
                      InvisibleChars),
                    AsciiCtrl)))))

\* the pieces the texts to sanitize are made of
MaxPieces == 3

MaxCalls == 2

FirstHalf == Chars("(oaicite:1)")

SecondHalf == Chars("{index=1}")

TextPieces ==
    {<<"a">>, <<" ">>, <<CR>>, <<NL>>, FirstHalf, SecondHalf, FirstHalf \o SecondHalf,
     <<FWLP>> \o Chars("oaicite:1") \o <<FWRP>>, <<ZWSP>>, <<BOM>>, <<NUL>>,
     <<EMDASH>>, <<HBAR>>, <<OGHAM>>, <<NBSP>>, <<ELLIPSIS>>, <<LDQUO>>, <<BULLET>>}

SanitizeTexts == {Flatten(q) : q \in SeqsUpTo(TextPieces, MaxPieces)}

ParseTextOptions == [normalizeEmDashesToCommas : BOOLEAN, collapseSpaces : BOOLEAN]

\* ------------------------------------------------------------------------
\* parseText called on a text, then on what it returned
\* ------------------------------------------------------------------------

InitText ==
    /\ textIn \in SanitizeTexts
    /\ textOpts \in ParseTextOptions
    /\ textOut = << >>
    /\ inText = << >>
    /\ inSchema = ZString
    /\ pc = "idle"
    /\ ParseLocalsFresh
    /\ GenIdle
    /\ ModuleLoaded
    /\ RetryIdle

\* parseText(text, options) with the input
FirstCall ==
    /\ textOut = << >>
    /\ textOut' = <<parseText(textIn, textOpts)>>
    /\ lastIndex' = AfterReplaces(lastIndex)
    /\ UNCHANGED <<textIn, textOpts, parseVars, genVars, calls, retryVars>>

\* parseText(result, options) with what the previous call returned
NextCall ==
    /\ textOut # << >>
    /\ Len(textOut) < MaxCalls
    /\ textOut' = Append(textOut, parseText(textOut[Len(textOut)], textOpts))
    /\ lastIndex' = AfterReplaces(lastIndex)
    /\ UNCHANGED <<textIn, textOpts, parseVars, genVars, calls, retryVars>>

NextText ==
    \/ FirstCall
    \/ NextCall

SpecText == InitText /\ [][NextText]_vars

\* ------------------------------------------------------------------------
\* parse-text.ts called again and again in one process: parseObject calls,
\* with parseText calls before them, all on the same module-level regexes
\* ------------------------------------------------------------------------
MaxHistory == 2

RepeatTexts ==
    {Fenced(Chars("{\"a\":\"x\"}")),
     Fenced(Chars("[\"x\"]")) \o Chars("{\"a\":\"x\",\"b\":[1,2]}"),
     Chars("[\"x\"]"),
     Chars("{bad}")}

RepeatSchemas == {ObjA, ArrStr}

RepeatSanitized ==
    {<<Chars("a"), DefaultOptions>>,
     <<FirstHalf \o SecondHalf \o <<" ", EMDASH>>, DefaultOptions>>,
     <<<<" ", EMDASH, "a">>, [normalizeEmDashesToCommas |-> FALSE, collapseSpaces |-> FALSE]>>}

InitCalls ==
    /\ inText \in RepeatTexts
    /\ inSchema \in RepeatSchemas
    /\ pc = "start"
    /\ ParseLocalsFresh
    /\ GenIdle
    /\ TextIdle
    /\ ModuleLoaded
    /\ RetryIdle

\* a completed call: the function, its arguments and how it ended
CallOf(fn, text, arg, end) == [fn |-> fn, text |-> text, arg |-> arg, outcome |-> end]

\* the parseObject call has ended and parseObject is called again
CallAgain ==
    /\ pc = "done"
    /\ Len(calls) < MaxHistory
    /\ calls' = Append(calls, CallOf("parseObject", inText, inSchema, outcome))
    /\ inText' \in RepeatTexts
    /\ inSchema' \in RepeatSchemas
    /\ pc' = "start"
    /\ located' = << >>
    /\ extractedV' = JUndef
    /\ unescapedV' = JUndef
    /\ outcome' = NoOutcome
    /\ UNCHANGED <<lastIndex, genVars, textVars, retryVars>>

\* parseText(text, options) is called before the parseObject call begins
SanitizeCall ==
    /\ pc = "start"
    /\ Len(calls) < MaxHistory
    /\ \E in \in RepeatSanitized :
          calls' = Append(calls, CallOf("parseText", in[1], in[2],
                                        Return(parseText(in[1], in[2]))))
    /\ lastIndex' = AfterReplaces(lastIndex)
    /\ UNCHANGED <<parseVars, genVars, textVars, retryVars>>

NextCalls ==
    \/ NextParse
    \/ CallAgain
    \/ SanitizeCall

SpecCalls == InitCalls /\ [][NextCalls]_vars

\* ------------------------------------------------------------------------
\* resilient-agent.adapter.ts: ResilientAgent.run, the retry decorator
\* (RetryableAgentAdapter differs in its log lines only; the logger is taken
\* not to throw)
\* ------------------------------------------------------------------------
MaxRetries == 3

\* the retries option, and what a call of the wrapped agent resolves with or
\* rejects with
RetryCounts == -1..MaxRetries

AgentOutputs == {JNull, JUndef, JStr(Chars("out")), JStr(Chars("other"))}

AgentErrors == {JsError(Chars("boom")), NotAnError}

\* a bound that allows one attempt too many
OneAttemptMore(count) == count + 2

\* const maxAttempts = this.retries + 1
MaxAttempts(count) == count + 1

InitRetry ==
    /\ retries \in RetryCounts
    /\ attempt = 1
    /\ rpc = "loop"
    /\ agentRuns = << >>
    /\ runResult = NoRun
    /\ inText = << >>
    /\ inSchema = ZString
    /\ pc = "idle"
    /\ ParseLocalsFresh
    /\ GenIdle
    /\ TextIdle
    /\ ModuleLoaded

\* if (result !== null) return result; else the loop goes on
AttemptGave(value) ==
    /\ runResult' = IF value # JNull THEN Return(value) ELSE runResult
    /\ rpc' = IF value # JNull THEN "returned" ELSE rpc
    /\ attempt' = IF value # JNull THEN attempt ELSE attempt + 1

\* await this.agent.run(input) resolves
AgentResolves ==
    /\ rpc = "loop"
    /\ attempt <= MaxAttempts(retries)
    /\ \E value \in AgentOutputs :
          /\ agentRuns' = Append(agentRuns, Return(value))
          /\ AttemptGave(value)
    /\ UNCHANGED <<retries, parseVars, genVars, textVars, moduleVars>>

\* await this.agent.run(input) rejects: the catch block logs, the loop goes on
AgentRejects ==
    /\ rpc = "loop"
    /\ attempt <= MaxAttempts(retries)
    /\ \E error \in AgentErrors : agentRuns' = Append(agentRuns, Throw(error))
    /\ attempt' = attempt + 1
    /\ UNCHANGED <<retries, rpc, runResult, parseVars, genVars, textVars, moduleVars>>

\* the loop ends without a result: return null
AllAttemptsFailed ==
    /\ rpc = "loop"
    /\ attempt > MaxAttempts(retries)
    /\ runResult' = Return(JNull)
    /\ rpc' = "returned"
    /\ UNCHANGED <<retries, attempt, agentRuns, parseVars, genVars, textVars, moduleVars>>

NextRetry ==
    \/ AgentResolves
    \/ AgentRejects
    \/ AllAttemptsFailed

SpecRetry == InitRetry /\ [][NextRetry]_vars

\* ------------------------------------------------------------------------
\* Reference notions the properties are stated with
\* ------------------------------------------------------------------------

Done == pc = "done"

Threw == Done /\ outcome.kind = "throw"

ThrewParseObjectError == Threw /\ outcome.err.name = "ParseObjectError"

\* the text is exactly JSON.stringify of the object or array it parses to
IsStringified(text, parsed) ==
    /\ parsed.ok
    /\ parsed.v.t \in {"obj", "arr"}
    /\ Stringify(parsed.v) = text

\* schema.parse(v) returns v itself
AcceptsUnchanged(schema, v) == ZodRun(schema, v) = Valid(v)

\* a fenced block: opening fence, optional json tag, line break, interior up
\* to the first line break followed by a closing fence
RECURSIVE FenceCloseFrom(_, _)
FenceCloseFrom(s, e) ==
    IF e > Len(s) THEN 0
    ELSE IF ClosesAt(s, e) THEN e
    ELSE FenceCloseFrom(s, e + 1)

FencedInteriorAt(s, i, from) ==
    IF from = 0 \/ FenceCloseFrom(s, from) = 0 THEN [ok |-> FALSE]
    ELSE [ok |-> TRUE,
          body |-> SubSeq(s, from, FenceCloseFrom(s, from) - 1),
          rest |-> CloseEnd(s, FenceCloseFrom(s, from))]

FencedBodyStart(s, i) ==
    IF ~StartsWithAt(s, i, Fence) THEN 0
    ELSE IF StartsWithAt(s, i + 3, Chars("json\r\n")) THEN i + 9
    ELSE IF StartsWithAt(s, i + 3, Chars("json\n")) THEN i + 8
    ELSE IF StartsWithAt(s, i + 3, <<CR, NL>>) THEN i + 5
    ELSE IF StartsWithAt(s, i + 3, <<NL>>) THEN i + 4
    ELSE 0

RECURSIVE FencedInteriorsFrom(_, _)
FencedInteriorsFrom(s, i) ==
    IF i > Len(s) THEN << >>
    ELSE IF FencedInteriorAt(s, i, FencedBodyStart(s, i)).ok
         THEN <<Trim(FencedInteriorAt(s, i, FencedBodyStart(s, i)).body)>>
              \o FencedInteriorsFrom(s, FencedInteriorAt(s, i, FencedBodyStart(s, i)).rest)
         ELSE FencedInteriorsFrom(s, i + 1)

\* the interiors of the text's fenced blocks that strictly parse
ParsableInteriors(text) ==
    SelectSeq(FencedInteriorsFrom(text, 1), LAMBDA b : JsonParse(b).ok)

\* top-level bracket spans: from an opener met outside any span to the closer
\* that balances it; a closer that balances nothing is no part of a span
RECURSIVE TopLevelSpansFrom(_, _, _, _)
TopLevelSpansFrom(text, i, depth, start) ==
    IF i > Len(text) THEN << >>
    ELSE IF text[i] \in {"{", "["}
         THEN TopLevelSpansFrom(text, i + 1, depth + 1, IF depth = 0 THEN i ELSE start)
    ELSE IF text[i] \in {"}", "]"} /\ depth = 1
         THEN <<SubSeq(text, start, i)>> \o TopLevelSpansFrom(text, i + 1, 0, 0)
    ELSE IF text[i] \in {"}", "]"} /\ depth > 1
         THEN TopLevelSpansFrom(text, i + 1, depth - 1, start)
    ELSE TopLevelSpansFrom(text, i + 1, depth, start)

ParsableSpans(text) ==
    SelectSeq(TopLevelSpansFrom(text, 1, 0, 0), LAMBDA b : JsonParse(b).ok)

Range(q) == {q[k] : k \in DOMAIN q}

IsLongestOf(s, strings) ==
    /\ s \in Range(strings)
    /\ \A k \in DOMAIN strings : Len(strings[k]) <= Len(s)

\* no '{' followed anywhere later by '}'
NoObjectSpan(text) ==
    \/ IndexOf(text, "{") = 0
    \/ LastIndexOf(text, "}") = 0
    \/ LastIndexOf(text, "}") < IndexOf(text, "{")

\* ------------------------------------------------------------------------
\* Properties of parseObject
\* ------------------------------------------------------------------------

\* C1: round trip. For a JSON object or array v that the schema accepts
\* unchanged, parseObject(JSON.stringify(v), schema) returns a value deeply
\* equal to v.
C1_RoundTrip ==
    (Done /\ IsStringified(inText, JsonParse(inText))
          /\ AcceptsUnchanged(inSchema, JsonParse(inText).v))
        => outcome = Return(JsonParse(inText).v)

\* C3: for a boolean schema parseObject yields true only when the trimmed
\* text is the JSON literal true and false only when it is the literal false;
\* for a number schema it yields a number only when the trimmed text is a
\* JSON number literal.
C3_StrictPrimitives ==
    (Done /\ outcome.kind = "ok") =>
        /\ (inSchema = ZBoolean /\ outcome.v = JBool(TRUE)) => Trim(inText) = Chars("true")
        /\ (inSchema = ZBoolean /\ outcome.v = JBool(FALSE)) => Trim(inText) = Chars("false")
        /\ (inSchema = ZNumber /\ outcome.v.t = "num") =>
               (JsonParse(Trim(inText)).ok /\ JsonParse(Trim(inText)).v.t = "num")

\* C4 as stated: with an object schema wrapped in optional + nullable +
\* default, a text holding no '{'...'}' span makes parseObject return the
\* configured default.
C4_DefaultWhenAbsent ==
    (Done /\ inSchema = WrappedObjA /\ NoObjectSpan(inText))
        => outcome = Return(DefaultA)

\* C4: with an object schema wrapped in optional + nullable + default, a text
\* holding no '{'...'}' span makes parseObject fail with a ParseObjectError,
\* exactly as it does for the unwrapped object schema ('No object found in
\* response' when '{' or '}' is missing); the default is not returned.
C4_WrappedFailsLikeInner ==
    (Done /\ inSchema = WrappedObjA /\ NoObjectSpan(inText)) =>
        /\ ThrewParseObjectError
        /\ outcome = ParseObject(inText, ObjA)
        /\ (IndexOf(inText, "{") = 0 \/ LastIndexOf(inText, "}") = 0)
               => outcome.err.message = "No object found in response"

C4_Witness ==
    /\ Done /\ inSchema = WrappedObjA /\ NoObjectSpan(inText)
    /\ inText # << >>
    /\ outcome = Throw(ParseObjectError("No object found in response", NoCause, inText))

\* C5: whenever the text holds at least one fenced block whose interior
\* strictly parses as JSON, the located candidate is the longest such
\* interior, whatever other JSON-looking text stands outside the fences.
C5_FencedInteriorWins ==
    (pc # "start" /\ ParsableInteriors(inText) # << >>)
        => IsLongestOf(located, ParsableInteriors(inText))

\* C6: when the text holds no parsable fenced block but several top-level
\* bracket spans, the located candidate is the longest of the spans that
\* strictly parse.
C6_LongestParsableSpan ==
    (pc # "start" /\ ParsableInteriors(inText) = << >>
                  /\ Len(ParsableSpans(inText)) >= 2)
        => IsLongestOf(located, ParsableSpans(inText))

\* C8: every ParseObjectError parseObject throws (no container found, JSON
\* that cannot be repaired, unsupported schema, union without container,
\* schema validation failure) carries in its text field the original input,
\* not the located candidate.
C8_ErrorCarriesInput == ThrewParseObjectError => outcome.err.text = inText

C8_Witness ==
    /\ ThrewParseObjectError
    /\ located # inText
    /\ outcome.err.text = inText
    /\ outcome.err.message = "No object found in response"

\* C9: every failure of parseObject is a ParseObjectError with message,
\* cause and text, an exception thrown by a transform or refinement callback
\* included.
C9_OnlyParseObjectError ==
    Threw => /\ outcome.err.name = "ParseObjectError"
             /\ {"message", "cause", "text"} \subseteq DOMAIN outcome.err


\* ------------------------------------------------------------------------
\* Properties of generateStructured
\* ------------------------------------------------------------------------

GenDone == gpc = "done"

Failed(code) == GenDone /\ result.success = FALSE /\ result.error.code = code

\* what extraction makes of the response text, before validation
ExtractionOf(text) == ExtractBySchemaType(ExtractJsonString(text), inSchema, text)

\* a value was located and parsed, and the schema rejects it
SchemaRejects(extraction) ==
    IF extraction.kind = "ok"
    THEN ZodRun(inSchema, UnescapeJsonValues(extraction.v)).r = "issues"
    ELSE FALSE

IsGenerationResult(r) ==
    \/ r.success = TRUE /\ DOMAIN r = {"success", "data"}
    \/ /\ r.success = FALSE
       /\ DOMAIN r = {"success", "error"}
       /\ DOMAIN r.error = {"code", "message", "cause"}
       /\ r.error.code \in GenerationErrorCode

\* C2: when a value was located and parsed from the response text and only
\* the schema rejects it, generateStructured returns a failure with code
\* VALIDATION_FAILED; PARSING_FAILED is returned only when no candidate
\* could be found or repair and parsing failed.
C2_ValidationFailedCode ==
    (GenDone /\ gpc = "done" /\ response.kind = "ok" /\ ~IsEmptyText(response.text)) =>
        /\ SchemaRejects(ExtractionOf(response.text.s)) => Failed("VALIDATION_FAILED")
        /\ Failed("PARSING_FAILED") => ExtractionOf(response.text.s).kind = "throw"

\* C10: generateStructured never rejects. Whatever the model call settles
\* with and whatever text it returns, a rejection of the model call and an
\* exception of parseObject both meet a catch block, and the call resolves
\* with either success and data, or failure and an error whose code is one
\* of the six GenerationErrorCode values.
C10_AlwaysAResult ==
    /\ gpc = "responded" => response.kind = "ok"
    /\ gpc = "rejected" => (response.kind = "throw" /\ result = NoResult)
    /\ (gpc = "parsing" /\ pc = "done") => outcome.kind \in {"ok", "throw"}
    /\ GenDone => IsGenerationResult(result)

C10_Witness ==
    /\ GenDone
    /\ response.kind = "throw"
    /\ ~InstanceOfError(response.err)
    /\ result = generationFailure("AI_GENERATION_FAILED", Chars("Unknown error"), NotAnError)


\* the response text is missing, empty, or nothing but whitespace
IsBlank(text) ==
    IF text.t # "str" THEN TRUE
    ELSE \A k \in DOMAIN text.s : text.s[k] \in {" ", NL, CR, TAB}

\* C11: no internal retry. Within one generateStructured call the model is
\* invoked exactly once and extraction at most once; blank text, a parse
\* failure, a validation failure or a thrown model error leads to no second
\* model call and no second extraction, and the call ends in one success or
\* one classified failure that nothing replaces afterwards.
C11_NoInternalRetry ==
    /\ [](modelCalls <= 1 /\ extractions <= 1)
    /\ [](gpc \notin {"idle", "start"} => modelCalls = 1)
    /\ [](GenDone => IsGenerationResult(result))
    /\ [][GenDone => UNCHANGED <<result, modelCalls, extractions>>]_vars
    /\ [][result # NoResult => result' = result]_vars

C11_Witness ==
    /\ GenDone
    /\ Failed("PARSING_FAILED")
    /\ modelCalls = 1
    /\ extractions = 1

\* C12: if the text the model returned is empty or only whitespace,
\* generateStructured returns a failure with code EMPTY_RESULT and
\* extraction is not run, whatever the schema (a string schema included).
C12_BlankIsEmptyResult ==
    (response.kind = "ok" /\ IsBlank(response.text)) =>
        /\ extractions = 0
        /\ pc = "idle"
        /\ GenDone => Failed("EMPTY_RESULT")

C12_Witness ==
    /\ GenDone
    /\ inSchema = ZString
    /\ response.kind = "ok"
    /\ response.text = JStr(Chars("  \n"))
    /\ Failed("EMPTY_RESULT")

\* ------------------------------------------------------------------------
\* Properties of schema-directed extraction
\* ------------------------------------------------------------------------

ValidationFailure(text) ==
    Throw(ParseObjectError("Failed to validate response against schema", ZodError, text))

\* the text is a well-formed JSON object whose discriminant is no variant's
UnknownDiscriminant(parsed) ==
    IF parsed.ok /\ parsed.v.t = "obj"
    THEN IF KeyA \in DOMAIN parsed.v.m
         THEN parsed.v.m[KeyA] \notin {JStr(Chars("x")), JStr(Chars("n"))}
         ELSE FALSE
    ELSE FALSE

\* C13: for a discriminated union, a well-formed JSON object whose
\* discriminant value belongs to no variant makes parseObject fail in the
\* validation step, with the schema's validation failure as the cause, never
\* with a 'not found' or 'failed to parse' failure.
C13_UnknownVariantIsValidationError ==
    (Done /\ inSchema = DiscUnion /\ UnknownDiscriminant(JsonParse(inText)))
        => outcome = ValidationFailure(inText)

C13_Witness ==
    /\ Done /\ inSchema = DiscUnion /\ UnknownDiscriminant(JsonParse(inText))
    /\ unescapedV.t = "obj"
    /\ outcome.kind = "throw"
    /\ outcome.err.cause = ZodError

IsUnion(schema) == schema.kind \in {"union", "discriminatedUnion"}

\* what bracket presence alone decides for the located candidate
ByBracketPresence(candidate, text) ==
    IF "{" \in Range(candidate) THEN ExtractObject(candidate, text)
    ELSE IF "[" \in Range(candidate) THEN ExtractArray(candidate, text)
    ELSE Throw(ParseObjectError("No object or array found for union type", NoCause, text))

\* the end of a call whose extraction gave strategy
EndsAs(strategy) ==
    IF strategy.kind = "throw" THEN outcome = strategy
    ELSE outcome = Caught(SchemaParse(inSchema, UnescapeJsonValues(strategy.v)), inText)

\* C14: for a union or discriminated union, extraction tries no variant; it
\* looks at bracket presence only: the Object strategy if '{' is present,
\* otherwise the Array strategy if '[' is present, otherwise the failure 'No
\* object or array found for union type'; which variant matches is decided
\* by the schema's own validation alone.
C14_UnionByBracketPresence ==
    (IsUnion(inSchema) /\ pc \in {"extracted", "unescaped", "done"}) =>
        /\ ByBracketPresence(located, inText).kind = "ok"
               => extractedV = ByBracketPresence(located, inText).v
        /\ ByBracketPresence(located, inText).kind = "throw" => pc = "done"
        /\ Done => EndsAs(ByBracketPresence(located, inText))
        /\ ExtractBySchemaType(located, inSchema, inText)
               = ExtractBySchemaType(located, ZUnion(<< >>), inText)

C14_Witness ==
    /\ Done
    /\ inSchema = UnionObjArr
    /\ "{" \notin Range(located)
    /\ "[" \in Range(located)
    /\ outcome.kind = "ok"
    /\ outcome.v.t = "arr"

\* C15: for a union all of whose variants are array schemas, every text that
\* is a valid JSON array accepted by one of the variants is extracted to
\* that array, whatever the element type (strings, numbers or objects).
C15_UnionOfArrays ==
    (Done /\ inSchema = ArrUnion /\ JsonParse(inText).ok
          /\ AcceptsUnchanged(ArrUnion, JsonParse(inText).v))
        => outcome = Return(JsonParse(inText).v)

\* the schema under its optional, nullable and default wrappers
RECURSIVE Unwrapped(_)
Unwrapped(schema) ==
    IF schema.kind \in {"optional", "nullable", "default"} THEN Unwrapped(schema.inner)
    ELSE schema

\* C16: wrapper transparency. For every text holding an object candidate
\* and every object schema S under any nesting W of optional, nullable and
\* default, parseObject(text, W(S)) ends as parseObject(text, S): the same
\* value on success, the same failure on failure.
C16_WrapperTransparency ==
    (Done /\ inSchema \in WrappedObjects /\ ~NoObjectSpan(inText))
        => outcome = ParseObject(inText, Unwrapped(inSchema))

C16_Witness ==
    /\ Done
    /\ inSchema = WrappedObjA
    /\ ~NoObjectSpan(inText)
    /\ located # inText
    /\ outcome.kind = "ok"
    /\ outcome = ParseObject(inText, ObjA)

\* C17: whenever parseObject returns a value, it is the output of validation
\* by the original, outermost schema applied to the unescaped extracted
\* value: transforms and defaults are applied, a rejecting refinement makes
\* the call fail, and nothing is returned that did not pass that validation.
C17_ValidatedByOuterSchema ==
    /\ (Done /\ outcome.kind = "ok") =>
           /\ unescapedV = UnescapeJsonValues(extractedV)
           /\ ZodRun(inSchema, unescapedV) = Valid(outcome.v)
    /\ (Done /\ pc = "done" /\ extractedV # JUndef) =>
           (ZodRun(inSchema, UnescapeJsonValues(extractedV)).r # "ok" => Threw)

C17_Witness ==
    /\ Done
    /\ inSchema = ZPipe(ObjA, "addFlag")
    /\ outcome.kind = "ok"
    /\ outcome.v # unescapedV
    /\ outcome.v.m[KeyB] = JBool(TRUE)

IsPrimitive(schema) == schema.kind \in {"string", "number", "boolean", "null"}

\* the whole text through the fallback path
FallbackText(text) == Trim(CollapseWs(text))

\* C18: for a primitive schema the value is derived from the whole input
\* text taken through the fallback path (whitespace collapsed, trimmed):
\* strictly parsed if possible, else the raw trimmed text; a fenced block or
\* bracketed span inside the text is never the source of the value.
C18_PrimitiveFromWholeText ==
    (IsPrimitive(inSchema) /\ pc \in {"located", "extracted", "unescaped", "done"}) =>
        /\ located = FallbackText(inText)
        /\ Done => EndsAs(ExtractPrimitive(FallbackText(inText), inSchema))

\* the schema under its optional, nullable, default and transform wrappers
RECURSIVE Innermost(_)
Innermost(schema) ==
    IF schema.kind \in {"optional", "nullable", "default"} THEN Innermost(schema.inner)
    ELSE IF schema.kind = "pipe" THEN Innermost(schema.in)
    ELSE schema

SupportedKinds ==
    {"array", "object", "string", "number", "boolean", "null", "union",
     "discriminatedUnion"}

\* C19: for a schema whose kind, under its wrappers, is none of the
\* supported kinds, parseObject fails with ParseObjectError 'Unsupported
\* schema type' for every text, and schema validation is never run.
C19_UnsupportedSchemaType ==
    (Innermost(inSchema).kind \notin SupportedKinds) =>
        /\ pc \notin {"extracted", "unescaped"}
        /\ extractedV = JUndef /\ unescapedV = JUndef
        /\ Done => outcome = Throw(ParseObjectError("Unsupported schema type",
                                                    NoCause, inText))

C19_Witness ==
    /\ Done
    /\ inSchema = ZPipe(ZNullable(LitX), "addFlag")
    /\ inText = Chars("\"x y\"")
    /\ outcome.err.message = "Unsupported schema type"

\* C30: for a null schema, bare or wrapped in optional, nullable or default,
\* parseObject returns null for every input text and never fails, whether or
\* not the text is the literal null.
C30_NullSchemaAlwaysNull ==
    (Done /\ Unwrapped(inSchema).kind = "null") => outcome = Return(JNull)

\* a text that is not the literal null, under a wrapped null schema
C30_Witness ==
    /\ Done
    /\ inSchema = ZDefault(ZNullable(ZNull), JNull)
    /\ inText = Chars("{bad}")
    /\ outcome = Return(JNull)

\* ------------------------------------------------------------------------
\* Properties of the locator
\* ------------------------------------------------------------------------

\* C26: the bracket scanner tests every top-level balanced region: each span
\* from an opening bracket seen at depth zero to the closing bracket that
\* brings depth back to zero is strictly parsed and kept if it parses, also
\* when the region comes after an unmatched closing bracket.
C26_EveryTopLevelRegion ==
    pc # "start" => FindJsonStructures(inText) = ParsableSpans(inText)

\* C27: every candidate from the fenced tier or the bracket-matched tier
\* strictly parses as JSON, and the whole-text fallback (the only way text
\* that needs repair reaches the repair step) is used only when the text has
\* no strictly parseable fenced interior and no strictly parseable top-level
\* bracket span.
C27_RepairOnlyThroughFallback ==
    pc # "start" =>
        IF ParsableInteriors(inText) # << >> \/ ParsableSpans(inText) # << >>
        THEN /\ JsonParse(located).ok
             /\ located \in Range(ParsableInteriors(inText)) \cup Range(ParsableSpans(inText))
        ELSE located = FallbackText(inText)

\* the candidate holds no opener or no closer of the kind
Lacks(candidate, opener, closer) ==
    opener \notin Range(candidate) \/ closer \notin Range(candidate)

NotFound(message) == outcome = Throw(ParseObjectError(message, NoCause, inText))

\* C28: the candidate the locator chooses depends on the text only, never on
\* the schema, and schema-directed extraction is applied to that single
\* candidate: if it lacks the bracket kind the schema needs (an array
\* candidate for an object schema while an object stands elsewhere in the
\* text), parseObject fails without trying any other candidate.
C28_OneCandidatePerText ==
    /\ pc # "start" => located = ExtractJsonString(inText)
    /\ (Done /\ Innermost(inSchema).kind = "object" /\ Lacks(located, "{", "}"))
            => NotFound("No object found in response")
    /\ (Done /\ Innermost(inSchema).kind = "array" /\ Lacks(located, "[", "]"))
            => NotFound("No array found in response")

\* an object schema, an array candidate, and an object elsewhere in the text
C28_Witness ==
    /\ Done
    /\ inSchema = ObjA
    /\ located = Chars("[\"x\"]")
    /\ "{" \in Range(inText)
    /\ "}" \in Range(inText)
    /\ outcome.kind = "throw"
    /\ outcome.err.message = "No object found in response"

\* ------------------------------------------------------------------------
\* Properties of the leaf unescaper
\* ------------------------------------------------------------------------

\* one global replacement pass over a string
Pass(name, str) ==
    CASE name = "quote" -> ReplaceEscape(str, DQ, DQ)
      [] name = "n" -> ReplaceEscape(str, "n", NL)
      [] name = "r" -> ReplaceEscape(str, "r", CR)
      [] name = "t" -> ReplaceEscape(str, "t", TAB)
      [] name = "backslash" -> ReplaceEscape(str, BS, BS)
      [] name = "unicode" -> ReplaceUnicode(str)

RECURSIVE RunPasses(_, _)
RunPasses(names, str) ==
    IF names = << >> THEN str ELSE RunPasses(Tail(names), Pass(Head(names), str))

SixPasses == <<"quote", "n", "r", "t", "backslash", "unicode">>

\* a JSON value with the six passes run over each of its string leaves
RECURSIVE LeavesPassed(_)
LeavesPassed(json) ==
    CASE json.t = "str" -> JStr(RunPasses(SixPasses, json.s))
      [] json.t = "arr" -> JArr([k \in 1..Len(json.items) |-> LeavesPassed(json.items[k])])
      [] json.t = "obj" -> JObj([k \in DOMAIN json.m |-> LeavesPassed(json.m[k])])
      [] OTHER -> json

\* C25: the leaf unescaper transforms every string leaf by six global
\* replacement passes in this order, each on the output of the previous one:
\* backslash-quote to quote, backslash-n to newline, backslash-r to carriage
\* return, backslash-t to tab, double backslash to backslash, backslash-uXXXX
\* to the character of that code; not by one left-to-right decoding.
C25_SixPassesInOrder ==
    pc \in {"unescaped", "done"} => unescapedV = LeavesPassed(extractedV)

\* a leaf of two backslashes and n: the passes give a backslash and a
\* newline, where one decoding from the left gives a backslash and n
C25_Witness ==
    /\ pc = "unescaped"
    /\ extractedV = JObj(KeyA :> JStr(<<BS, BS, "n">>))
    /\ unescapedV = JObj(KeyA :> JStr(<<BS, NL>>))

\* ------------------------------------------------------------------------
\* Properties of classifyError
\* ------------------------------------------------------------------------

\* the first rule one of whose substrings the message contains decides
RECURSIVE FirstRule(_, _)
FirstRule(rules, message) ==
    IF rules = << >> THEN "AI_GENERATION_FAILED"
    ELSE IF \E sub \in Head(rules).subs : Includes(message, sub) THEN Head(rules).code
    ELSE FirstRule(Tail(rules), message)

StatedRules ==
    <<[subs |-> {Chars("timeout"), Chars("timed out")}, code |-> "TIMEOUT"],
      [subs |-> {Chars("rate limit"), Chars("429")}, code |-> "RATE_LIMITED"],
      [subs |-> {Chars("parse"), Chars("json"), Chars("unexpected token")},
       code |-> "PARSING_FAILED"],
      [subs |-> {Chars("valid"), Chars("schema")}, code |-> "VALIDATION_FAILED"]>>

RulesWithZod ==
    SubSeq(StatedRules, 1, 3)
        \o <<[subs |-> {Chars("valid"), Chars("schema"), Chars("zod")},
              code |-> "VALIDATION_FAILED"]>>

\* the message with its capital letters replaced by small ones
Lowered(str) == [k \in DOMAIN str |-> ToLowerChar(str[k])]

CodeBy(rules, error) ==
    IF InstanceOfError(error) THEN FirstRule(rules, Lowered(error.message))
    ELSE "AI_GENERATION_FAILED"

Rejected == GenDone /\ response.kind = "throw"

\* C20 as stated: classifyError goes by case-insensitive substrings of the
\* message: 'timeout' / 'timed out' give TIMEOUT, 'rate limit' / '429'
\* RATE_LIMITED, 'parse' / 'json' / 'unexpected token' PARSING_FAILED,
\* 'valid' / 'schema' VALIDATION_FAILED; every other Error and every
\* non-Error value give AI_GENERATION_FAILED.
C20_AsStated == Rejected => result.error.code = CodeBy(StatedRules, response.err)

\* C20: classifyError goes by case-insensitive substrings of the message,
\* the first matching group in this order deciding: 'timeout' / 'timed out'
\* give TIMEOUT, 'rate limit' / '429' RATE_LIMITED, 'parse' / 'json' /
\* 'unexpected token' PARSING_FAILED, 'valid' / 'schema' / 'zod'
\* VALIDATION_FAILED; every other Error and every non-Error value give
\* AI_GENERATION_FAILED.
C20_ClassifiedBySubstring ==
    Rejected => result.error.code = CodeBy(RulesWithZod, response.err)

C20_Witness ==
    /\ Rejected
    /\ response.err = JsError(Chars("ZodError"))
    /\ result.error.code = "VALIDATION_FAILED"

\* the classes one of whose keywords the message contains, by their place in
\* the order TIMEOUT, RATE_LIMITED, PARSING_FAILED, VALIDATION_FAILED
ClassesOf(message) ==
    {k \in DOMAIN RulesWithZod :
        \E sub \in RulesWithZod[k].subs : Includes(Lowered(message), sub)}

Earliest(classes) == CHOOSE k \in classes : \A other \in classes : k <= other

SeveralClasses(error) ==
    IF InstanceOfError(error) THEN Cardinality(ClassesOf(error.message)) >= 2 ELSE FALSE

\* C29: when an Error message contains keywords of more than one class,
\* classifyError returns the first matching class in the fixed order TIMEOUT,
\* RATE_LIMITED, PARSING_FAILED, VALIDATION_FAILED ('json' with 'schema' is
\* PARSING_FAILED, 'timeout' with '429' is TIMEOUT).
C29_FirstClassWins ==
    (Rejected /\ SeveralClasses(response.err)) =>
        result.error.code = RulesWithZod[Earliest(ClassesOf(response.err.message))].code

C29_Witness ==
    /\ Rejected
    /\ response.err = JsError(Chars("JSON schema mismatch"))
    /\ result.error.code = "PARSING_FAILED"

\* ------------------------------------------------------------------------
\* Properties of repeated calls
\* ------------------------------------------------------------------------

SameCall(a, b) == a.fn = b.fn /\ a.text = b.text /\ a.arg = b.arg

\* the parseObject call that has just ended, as a completed call
EndedCall == CallOf("parseObject", inText, inSchema, outcome)

\* C21: determinism and statelessness. Two calls of parseObject (or of
\* parseText) with identical text and schema have the same outcome, whatever
\* calls ran before or between them, and no call leaves module-level state
\* behind (the lastIndex of the shared global regexes included).
C21_SameCallSameOutcome ==
    /\ \A i, j \in DOMAIN calls : SameCall(calls[i], calls[j]) => calls[i] = calls[j]
    /\ Done => \A i \in DOMAIN calls : SameCall(calls[i], EndedCall) => calls[i] = EndedCall
    /\ pc \in {"start", "done"} => lastIndex = [re \in GlobalRegexes |-> 0]

\* a text with a fenced block parsed a second time, a parseText call between
C21_Witness ==
    /\ Done
    /\ Len(calls) = 2
    /\ calls[1] = EndedCall
    /\ calls[2].fn = "parseText"
    /\ inText = Fenced(Chars("[\"x\"]")) \o Chars("{\"a\":\"x\",\"b\":[1,2]}")
    /\ inSchema = ArrStr
    /\ outcome = Return(JArr(<<JStr(Chars("x"))>>))

\* ------------------------------------------------------------------------
\* Properties of the retry decorator
\* ------------------------------------------------------------------------

\* the attempt returned null or threw
FailedRun(run) == run.kind = "throw" \/ run = Return(JNull)

RunReturned == rpc = "returned"

\* C24: the retry decorator calls the wrapped agent at most retries+1 times,
\* one call after the other; it returns the first non-null result and makes
\* no further call after it; when every attempt returns null or throws it
\* returns null and never propagates the thrown error.
C24_AtMostRetriesPlusOne ==
    /\ [](Len(agentRuns) <= retries + 1 \/ agentRuns = << >>)
    /\ [](\A k \in 1..(Len(agentRuns) - 1) : FailedRun(agentRuns[k]))
    /\ [](RunReturned => runResult.kind = "ok")
    /\ []((RunReturned /\ runResult # Return(JNull))
            => (agentRuns # << >> /\ agentRuns[Len(agentRuns)] = runResult))
    /\ []((RunReturned /\ runResult = Return(JNull))
            => \A k \in DOMAIN agentRuns : FailedRun(agentRuns[k]))
    /\ []((rpc = "loop" /\ agentRuns # << >>) => FailedRun(agentRuns[Len(agentRuns)]))
    /\ [][RunReturned => UNCHANGED <<agentRuns, runResult>>]_vars

\* two failed attempts, then a result on the last attempt allowed
C24_Witness ==
    /\ RunReturned
    /\ retries = 2
    /\ agentRuns = <<Throw(JsError(Chars("boom"))), Return(JNull), Return(JStr(Chars("out")))>>
    /\ runResult = Return(JStr(Chars("out")))

\* ------------------------------------------------------------------------
\* Properties of parseText
\* ------------------------------------------------------------------------

\* C7: idempotence of sanitization. For every input and every fixed option
\* setting, parseText(parseText(x)) equals parseText(x).
C7_Idempotent == Len(textOut) >= 2 => textOut[2] = textOut[1]

\* the steps of sanitization by name, in the order they are stated
StatedSteps(options) ==
    <<"bom", "cr", "citations", "nfkc", "invisible", "control">>
        \o (IF options.normalizeEmDashesToCommas THEN <<"dashes">> ELSE << >>)
        \o <<"spaceLike", "typography">>
        \o (IF options.collapseSpaces THEN <<"collapse", "trim">> ELSE << >>)

ApplyStep(step, str) ==
    CASE step = "bom" -> StripBom(str)
      [] step = "cr" -> ReplaceCr(str)
      [] step = "citations" -> RemoveCitations(str, 1)
      [] step = "nfkc" -> Nfkc(str)
      [] step = "invisible" -> Remove(str, InvisibleChars)
      [] step = "control" -> Remove(str, AsciiCtrl)
      [] step = "dashes" -> DashesToCommas(str, 1)
      [] step = "spaceLike" -> SpaceLikeToSpace(str)
      [] step = "typography" -> Typography(str)
      [] step = "collapse" -> CollapseSpaces(str)
      [] step = "trim" -> TrimJs(str)

\* each step applied to what the step before it made
RECURSIVE RunSteps(_, _)
RunSteps(steps, str) ==
    IF steps = << >> THEN str ELSE RunSteps(Tail(steps), ApplyStep(Head(steps), str))

\* C22: parseText applies its steps in one fixed order for every input: strip
\* a leading BOM, CRLF and lone CR to LF, remove citation markers, NFKC,
\* remove invisible and ASCII control characters, (if enabled) dashes next to
\* whitespace to ', ', space-like characters to a space, typography
\* replacements, (if enabled) collapse space runs and trim.
C22_FixedStepOrder ==
    Len(textOut) >= 1 => textOut[1] = RunSteps(StatedSteps(textOpts), textIn)

\* a text where the order shows: a dash separator that typography would turn
\* into a hyphen, sanitized with both options
C22_Witness ==
    /\ Len(textOut) >= 1
    /\ textIn = <<"a", " ", EMDASH>>
    /\ textOpts = DefaultOptions
    /\ textOut[1] = Chars("a,")

\* C23: for every input, the output of parseText contains no citation marker
\* '(oaicite:<digits>){index=<digits>}', also when the marker of the input is
\* written with compatibility characters, interrupted by invisible
\* characters or nested inside another marker.
C23_NoCitationInOutput ==
    Len(textOut) >= 1 =>
        \A i \in 1..Len(textOut[1]) : CitationAt(textOut[1], i) = 0

====
